---- MODULE Spec2Model ----
(***************************************************************************)
(* A model of datawrapper-mcp: the tabular normaliser json_to_dataframe    *)
(* (datawrapper_mcp/utils.py) and the chart handlers create_chart and      *)
(* update_chart, in both forms the repository holds: the handler module    *)
(* (datawrapper_mcp/handlers/update.py, create.py) and the single-file     *)
(* server (datawrapper_mcp/server.py).                                     *)
(*                                                                         *)
(* JSON values are tagged records so that every collection is uniformly    *)
(* typed.  A scalar is written as its JSON text ("1", "7"); NaN is the     *)
(* null pandas puts in a cell whose row lacks the column.                  *)
(***************************************************************************)
EXTENDS Integers, Sequences, FiniteSets, TLC

VARIABLES token, extra_policy, remote, call, ncalls, norm, correlation_id, requests,
          logger, alias_table, published

vars == <<token, extra_policy, remote, call, ncalls, norm, correlation_id, requests,
          logger, alias_table, published>>

(***************************************************************************)
(* Bounds of the model.                                                    *)
(***************************************************************************)
MaxRows == 2
MaxPatchLen == 2
MaxCalls == 1
MaxDepth == 3
MaxRequests == 3
MaxFields == 2
MaxLogCalls == 4
MaxOps == 2

(***************************************************************************)
(* Sequence helpers.                                                       *)
(***************************************************************************)
Range(s) == {s[i] : i \in 1..Len(s)}

Contains(s, x) == \E i \in 1..Len(s) : s[i] = x

IndexOf(s, x) == CHOOSE i \in 1..Len(s) : s[i] = x /\ \A j \in 1..(i - 1) : s[j] # x

NoDup(s) == \A i, j \in 1..Len(s) : s[i] = s[j] => i = j

RECURSIVE SeqsUpTo(_, _)
SeqsUpTo(S, n) ==
    IF n = 0 THEN {<<>>}
    ELSE LET shorter == SeqsUpTo(S, n - 1)
         IN  shorter \cup {Append(s, x) : s \in {q \in shorter : Len(q) = n - 1}, x \in S}

(***************************************************************************)
(* Tables (pandas.DataFrame): ordered column names and rows of cells.      *)
(***************************************************************************)
NaN == "NaN"

EmptyDF == [columns |-> <<>>, rows |-> <<>>]

(* One element of a JSON list, or one value of a JSON object: its Python   *)
(* type name, and for a dict its keys and values in insertion order, for a *)
(* list its items (in vals).                                               *)
Elem(t, keys, vals) == [t |-> t, keys |-> keys, vals |-> vals]

Row(keys, vals) == Elem("dict", keys, vals)

Scalar(v) == Elem("int", <<>>, <<v>>)

Column(name, vals) == Elem("list", <<name>>, vals)

(* A value handed to json_to_dataframe.  t is its Python type name; elems  *)
(* are the items of a list or the (key, value) entries of a dict; text     *)
(* describes a str (empty otherwise).                                      *)
Data(t, elems) == [t |-> t, elems |-> elems, text |-> <<>>]

(* A str.  name is the text as a path (what os.path.isfile and open are    *)
(* given), ext what endswith finds; newline and comma say whether the text *)
(* contains them; rawlead whether the text itself starts with '[' or '{',  *)
(* lead whether it does once stripped of surrounding whitespace; parsed is *)
(* json.loads of the text, <<>> when the decoder rejects it and <<value>>  *)
(* otherwise.                                                              *)
Str(name, ext, newline, comma, rawlead, lead, parsed) ==
    [t |-> "str", elems |-> <<>>,
     text |-> <<[name |-> name, ext |-> ext, newline |-> newline,
                 comma |-> comma, rawlead |-> rawlead, lead |-> lead,
                 parsed |-> parsed]>>]

(* The local filesystem: for each path whether it is a regular file, what  *)
(* json.load reads from it (<<>> when the decoder rejects the content) and *)
(* what pd.read_csv reads from it (<<>> when the file has no columns to    *)
(* parse).                                                                 *)
Paths == {"a.json", "b.json", "c.csv", "d.txt", "[]"}

ExtOf(p) == IF p \in {"a.json", "b.json"} THEN "json"
            ELSE IF p = "c.csv" THEN "csv"
                 ELSE IF p = "d.txt" THEN "txt" ELSE ""

File(content, csv) == [isfile |-> TRUE, content |-> content, csv |-> csv]

NoFile == [isfile |-> FALSE, content |-> <<>>, csv |-> <<>>]

NoFiles == [p \in Paths |-> NoFile]

(* A variant that takes every path for a file.                             *)
isfile_any_path(files, s) == s.name \in DOMAIN files

isfile(files, s) == s.name \in DOMAIN files /\ files[s.name].isfile

(***************************************************************************)
(* pd.DataFrame(list of dicts): one row per dict, the columns are the      *)
(* union of the keys in first-seen order, a missing key gives NaN.         *)
(***************************************************************************)
RECURSIVE AddKeys(_, _)
AddKeys(cols, keys) ==
    IF keys = <<>> THEN cols
    ELSE AddKeys(IF Contains(cols, Head(keys)) THEN cols ELSE Append(cols, Head(keys)),
                 Tail(keys))

RECURSIVE UnionKeys(_, _)
UnionKeys(cols, rows) ==
    IF rows = <<>> THEN cols
    ELSE UnionKeys(AddKeys(cols, Head(rows).keys), Tail(rows))

CellOf(row, col) ==
    IF Contains(row.keys, col) THEN row.vals[IndexOf(row.keys, col)] ELSE NaN

(* A variant that takes the columns from the first record only.            *)
DataFrameFromFirstRecord(rows) ==
    LET cols == rows[1].keys
    IN  [columns |-> cols,
         rows |-> [i \in 1..Len(rows) |-> [j \in 1..Len(cols) |-> CellOf(rows[i], cols[j])]]]

DataFrameFromRecords(rows) ==
    LET cols == UnionKeys(<<>>, rows)
    IN  [columns |-> cols,
         rows |-> [i \in 1..Len(rows) |-> [j \in 1..Len(cols) |-> CellOf(rows[i], cols[j])]]]

(***************************************************************************)
(* pd.DataFrame(dict of lists): one column per key; pandas raises          *)
(* ValueError when the lists differ in length.                             *)
(***************************************************************************)
SameLength(entries) == \A i, j \in 1..Len(entries) : Len(entries[i].vals) = Len(entries[j].vals)

(* A variant that keeps the first column only.                             *)
DataFrameFromFirstColumn(entries) ==
    [columns |-> <<entries[1].keys[1]>>,
     rows |-> [i \in 1..Len(entries[1].vals) |-> <<entries[1].vals[i]>>]]

DataFrameFromColumns(entries) ==
    [columns |-> [j \in 1..Len(entries) |-> entries[j].keys[1]],
     rows |-> [i \in 1..Len(entries[1].vals) |->
                  [j \in 1..Len(entries) |-> entries[j].vals[i]]]]

(***************************************************************************)
(* json_to_dataframe.  The result is a table or the exception raised: exc  *)
(* is its class (ValueError covers its subclasses json.JSONDecodeError and *)
(* pandas.errors.EmptyDataError), reason the first line of its message,    *)
(* got the type name the message reports.  opened lists the files the call *)
(* has read, outermost first.                                              *)
(***************************************************************************)
Ok(df) == [ok |-> TRUE, exc |-> "", reason |-> "", got |-> "", df |-> df, opened |-> <<>>]

Raise(reason, got) ==
    [ok |-> FALSE, exc |-> "ValueError", reason |-> reason, got |-> got,
     df |-> EmptyDF, opened |-> <<>>]

(* The interpreter's recursion limit, reached by recursion without end.    *)
RecursionError ==
    [ok |-> FALSE, exc |-> "RecursionError", reason |-> "maximum recursion depth exceeded",
     got |-> "", df |-> EmptyDF, opened |-> <<>>]

(* The result of a call that read file name and then went on to r.         *)
Opened(name, r) == [r EXCEPT !.opened = <<name>> \o r.opened]

AllDicts(elems) == \A i \in 1..Len(elems) : elems[i].t = "dict"

AllLists(elems) == \A i \in 1..Len(elems) : elems[i].t = "list"

FromList(elems) ==
    IF elems = <<>> THEN Raise("Data list is empty", "")
    ELSE IF ~AllDicts(elems)
         THEN Raise("List format must contain dictionaries", elems[1].t)
         ELSE Ok(DataFrameFromRecords(elems))

(* A variant that cuts every column to the shortest one.                   *)
FromDictTruncating(elems) ==
    IF elems = <<>> THEN Raise("Data dict is empty", "")
    ELSE IF ~AllLists(elems)
         THEN Raise("Dict format must have lists as values", "")
         ELSE LET n == CHOOSE k \in 0..Len(elems[1].vals) + 8 :
                          /\ \A i \in 1..Len(elems) : k <= Len(elems[i].vals)
                          /\ \E i \in 1..Len(elems) : k = Len(elems[i].vals)
              IN  Ok(DataFrameFromColumns(
                         [j \in 1..Len(elems) |->
                            Column(elems[j].keys[1], SubSeq(elems[j].vals, 1, n))]))

FromDict(elems) ==
    IF elems = <<>> THEN Raise("Data dict is empty", "")
    ELSE IF ~AllLists(elems)
         THEN Raise("Dict format must have lists as values", "")
         ELSE IF ~SameLength(elems)
              THEN Raise("All arrays must be of the same length", "")
              ELSE Ok(DataFrameFromColumns(elems))

FromValue(data) ==
    IF data.t = "list" THEN FromList(data.elems)
    ELSE IF data.t = "dict" THEN FromDict(data.elems)
         ELSE Raise("Unsupported data type", data.t)

(* A variant that looks for the bracket in the text as it is, unstripped.  *)
from_text_unstripped(s) ==
    IF s.newline /\ s.comma /\ ~s.rawlead
    THEN Raise("CSV strings are not supported", "")
    ELSE IF s.parsed = <<>> THEN Raise("Invalid JSON string", "")
         ELSE FromValue(s.parsed[1])

(* A text that is no file: the check for CSV content, then json.loads and  *)
(* the checks of the decoded value.                                        *)
from_text(s) ==
    IF s.newline /\ s.comma /\ ~s.lead
    THEN Raise("CSV strings are not supported", "")
    ELSE IF s.parsed = <<>> THEN Raise("Invalid JSON string", "")
         ELSE FromValue(s.parsed[1])

(* depth counts the calls of json_to_dataframe on the stack; the           *)
(* interpreter raises RecursionError when the stack is full.  MaxDepth is  *)
(* more than the files a chain without a loop can hold, so that only a     *)
(* loop fills the stack.                                                   *)
RECURSIVE json_to_dataframe(_, _, _)
json_to_dataframe(files, data, depth) ==
    IF depth >= MaxDepth THEN RecursionError
    ELSE IF data.t = "str"
    THEN LET s == data.text[1]
         IN  IF isfile(files, s)
             THEN IF s.ext = "csv"
                  THEN Opened(s.name, IF files[s.name].csv = <<>>
                                      THEN Raise("No columns to parse from file", "")
                                      ELSE Ok(files[s.name].csv[1]))
                  ELSE IF s.ext = "json"
                       THEN Opened(s.name, IF files[s.name].content = <<>>
                                           THEN Raise("JSONDecodeError", "")
                                           ELSE json_to_dataframe(files,
                                                                  files[s.name].content[1],
                                                                  depth + 1))
                       ELSE Raise("Unsupported file type", "")
             ELSE from_text(s)
    ELSE FromValue(data)

(***************************************************************************)
(* json_to_dataframe of server.py: no file handling and no shape checks;   *)
(* whatever pd.DataFrame makes of a list or a dict is returned.  A list of *)
(* scalars gives one column named 0, an empty list or dict an empty table; *)
(* in a dict a scalar beside lists is repeated down its column, and a dict *)
(* of scalars only is an error of pandas.                                  *)
(***************************************************************************)
AllScalars(elems) == \A i \in 1..Len(elems) : elems[i].t \notin {"dict", "list"}

DataFrameFromScalars(elems) ==
    [columns |-> <<"0">>, rows |-> [i \in 1..Len(elems) |-> <<elems[i].vals[1]>>]]

ListEntries(entries) == {i \in 1..Len(entries) : entries[i].t = "list"}

Broadcast(entries) ==
    LET n == Len(entries[CHOOSE i \in ListEntries(entries) : TRUE].vals)
    IN  [j \in 1..Len(entries) |->
           IF entries[j].t = "list" THEN entries[j]
           ELSE Column(entries[j].keys[1], [i \in 1..n |-> entries[j].vals[1]])]

server_from_value(data) ==
    IF data.t = "list"
    THEN IF data.elems = <<>> THEN Ok(EmptyDF)
         ELSE IF AllDicts(data.elems) THEN Ok(DataFrameFromRecords(data.elems))
              ELSE IF AllScalars(data.elems) THEN Ok(DataFrameFromScalars(data.elems))
                   ELSE Raise("pandas error", "")
    ELSE IF data.t = "dict"
         THEN IF data.elems = <<>> THEN Ok(EmptyDF)
              ELSE IF AllScalars(data.elems)
                   THEN Raise("If using all scalar values, you must pass an index", "")
                   ELSE IF \A i, j \in ListEntries(data.elems) :
                              Len(data.elems[i].vals) = Len(data.elems[j].vals)
                        THEN Ok(DataFrameFromColumns(Broadcast(data.elems)))
                        ELSE Raise("All arrays must be of the same length", "")
         ELSE Raise("Data must be one of", "")

server_json_to_dataframe(data) ==
    IF data.t = "str"
    THEN IF data.text[1].parsed = <<>> THEN Raise("Invalid JSON string", "")
         ELSE server_from_value(data.text[1].parsed[1])
    ELSE server_from_value(data)

(***************************************************************************)
(* Field values.  A value carries its Python type name; s is the text of   *)
(* a str or an int, df the table of a DataFrame or of a list of records.   *)
(***************************************************************************)
S(x) == [kind |-> "str", s |-> x, df |-> EmptyDF]

I(x) == [kind |-> "int", s |-> x, df |-> EmptyDF]

L(df) == [kind |-> "list", s |-> "", df |-> df]

DF(df) == [kind |-> "DataFrame", s |-> "", df |-> df]

None == [kind |-> "NoneType", s |-> "", df |-> EmptyDF]

(***************************************************************************)
(* The chart classes (pydantic models of the datawrapper package).         *)
(* model_fields lists the fields in declaration order with their aliases   *)
(* ("" for none); every class fixes chart_type to one literal.             *)
(***************************************************************************)
CHART_CLASSES == [bar |-> "BarChart", column |-> "ColumnChart"]

ChartTypeKeys == {"bar", "column"}

model_fields ==
    << [name |-> "chart_type", alias |-> "chart-type"],
       [name |-> "title", alias |-> ""],
       [name |-> "source_name", alias |-> "source-name"],
       [name |-> "data", alias |-> ""],
       [name |-> "chart_id", alias |-> ""] >>

FieldNames == {model_fields[i].name : i \in 1..Len(model_fields)}

Aliases == {model_fields[i].alias : i \in 1..Len(model_fields)} \ {""}

TypeLiteral(cls) == IF cls = "BarChart" THEN "d3-bars" ELSE "column-chart"

Default(cls, name) ==
    IF name = "chart_type" THEN S(TypeLiteral(cls))
    ELSE IF name = "data" THEN DF(EmptyDF)
         ELSE IF name = "chart_id" THEN None ELSE S("")

(* Validation of one field value (strict mode): a str field takes a str,   *)
(* chart_type only its class's literal, chart_id a str or None, data a     *)
(* DataFrame or a list of records.                                         *)
ValidValue(cls, name, v) ==
    IF name = "chart_type" THEN v.kind = "str" /\ v.s = TypeLiteral(cls)
    ELSE IF name = "data" THEN v.kind \in {"DataFrame", "list"}
         ELSE IF name = "chart_id" THEN v.kind \in {"str", "NoneType"}
              ELSE v.kind = "str"

(* The value a field holds after validation: a list of records given for   *)
(* data becomes a DataFrame.                                               *)
Coerce(name, v) == IF name = "data" /\ v.kind = "list" THEN DF(v.df) ELSE v

(* setattr(chart, name, value) on a model with validate_assignment: an     *)
(* unknown attribute or an invalid value raises and leaves the instance    *)
(* as it was.                                                              *)
(* The message of the exception says which field and what was given.       *)
SetAttr(chart, name, v) ==
    IF name \in FieldNames /\ ValidValue(chart.cls, name, v)
    THEN [ok |-> TRUE, chart |-> [chart EXCEPT !.f[name] = Coerce(name, v)], error |-> <<>>]
    ELSE [ok |-> FALSE, chart |-> chart,
          error |-> IF name \in FieldNames
                    THEN <<"validation error for", chart.cls, name, v.kind>>
                    ELSE <<"object has no field", chart.cls, name>>]

(* chart.model_dump(exclude=...): the fields by canonical name.            *)
model_dump(chart, exclude) == [n \in FieldNames \ exclude |-> chart.f[n]]

(* A variant without populate_by_name: an aliased field is read by its     *)
(* alias only.                                                             *)
LookupByAliasOnly(cls, mapping, fld) ==
    IF fld.alias # "" THEN IF fld.alias \in DOMAIN mapping THEN mapping[fld.alias]
                           ELSE Default(cls, fld.name)
    ELSE IF fld.name \in DOMAIN mapping THEN mapping[fld.name]
         ELSE Default(cls, fld.name)

(* The value model_validate reads for a field from a mapping: the alias    *)
(* key first, then the field name (populate_by_name), then the default.    *)
Lookup(cls, mapping, fld) ==
    IF fld.alias # "" /\ fld.alias \in DOMAIN mapping THEN mapping[fld.alias]
    ELSE IF fld.name \in DOMAIN mapping THEN mapping[fld.name]
         ELSE Default(cls, fld.name)

(* chart_class.model_validate(mapping).  extra is the model's policy for   *)
(* keys that name no field: "ignore" drops them, "forbid" rejects them.    *)
model_validate(cls, mapping, extra) ==
    LET unknown == DOMAIN mapping \ (FieldNames \cup Aliases)
        value(i) == Lookup(cls, mapping, model_fields[i])
        good == /\ \A i \in 1..Len(model_fields) :
                      ValidValue(cls, model_fields[i].name, value(i))
                /\ (extra = "forbid" => unknown = {})
        fields == [n \in FieldNames |->
                     LET i == CHOOSE k \in 1..Len(model_fields) : model_fields[k].name = n
                     IN  Coerce(n, value(i))]
        names == [i \in 1..Len(model_fields) |-> model_fields[i].name]
        index(n) == CHOOSE k \in 1..Len(model_fields) : model_fields[k].name = n
        invalid == SelectSeq(names, LAMBDA n : ~ValidValue(cls, n, value(index(n))))
    IN  IF good THEN [ok |-> TRUE, obj |-> <<[cls |-> cls, f |-> fields]>>, error |-> <<>>]
        ELSE [ok |-> FALSE, obj |-> <<>>,
              error |-> <<"validation errors for", cls>> \o invalid
                        \o (IF extra = "forbid" /\ unknown # {}
                            THEN <<"extra_forbidden">> ELSE <<>>)]

(***************************************************************************)
(* The remote store behind get_chart, chart.update and chart.create.       *)
(***************************************************************************)
ChartIds == {"c1", "c2"}

(* A variant that returns the instance of chart c1 whatever id is asked.   *)
fetch_kept_instance(rem, id) == IF id \in ChartIds THEN rem["c1"] ELSE <<>>

fetch(rem, id) == IF id \in ChartIds THEN rem[id] ELSE <<>>

RemoteUpdate(rem, chart, remote_ok) ==
    LET target == chart.f["chart_id"].s
    IN  IF remote_ok /\ fetch(rem, target) # <<>>
        THEN [ok |-> TRUE, remote |-> [rem EXCEPT ![target] = <<chart>>], chart |-> chart]
        ELSE [ok |-> FALSE, remote |-> rem, chart |-> chart]

RemoteCreate(rem, chart, remote_ok) ==
    LET free == {id \in ChartIds : rem[id] = <<>>}
        id == CHOOSE x \in free : \A y \in free : (x = "c1" \/ y # "c1")
        made == [chart EXCEPT !.f["chart_id"] = S(id)]
    IN  IF remote_ok /\ free # {}
        THEN [ok |-> TRUE, remote |-> [rem EXCEPT ![id] = <<made>>], chart |-> made]
        ELSE [ok |-> FALSE, remote |-> rem, chart |-> chart]

(***************************************************************************)
(* The record of one handler invocation: its arguments, how it ended, the  *)
(* instance get_chart returned (fetched), the local instance when the      *)
(* handler ended (chart), the instance handed to chart.update or           *)
(* chart.create (submitted), the attribute names passed to setattr on the  *)
(* instance while applying chart_config (written), the mappings passed to  *)
(* model_validate (validated), the remote operations issued in order       *)
(* (ops), the remote store before the invocation (before), the table the   *)
(* data argument was normalised to (df), the exception the invocation      *)
(* ended with (raised), the content items it returned (response) and the   *)
(* exception call_tool caught from the handler (caught).                   *)
(***************************************************************************)
Args(chart_id, chart_type, has_data, data, has_config, config) ==
    [chart_id |-> chart_id, chart_type |-> chart_type, has_data |-> has_data,
     data |-> data, has_config |-> has_config, config |-> config]

NoData == Data("NoneType", <<>>)

Started(tool, variant, args, rem) ==
    [tool |-> tool, variant |-> variant, args |-> args, outcome |-> "running",
     fetched |-> <<>>, chart |-> <<>>, submitted |-> <<>>, written |-> <<>>,
     validated |-> <<>>, ops |-> <<>>, before |-> rem, df |-> <<>>,
     raised |-> <<>>, response |-> <<>>, caught |-> <<>>]

NoCall == Started("none", "", Args("", "", FALSE, NoData, FALSE, <<>>), [id \in ChartIds |-> <<>>])

(* The result of a handler: the finished record and the remote store.      *)
Done(c, outcome, rem) == [call |-> [c EXCEPT !.outcome = outcome], remote |-> rem]

(* An exception: its class and the parts of its message.                   *)
Exc(type, msg) == [type |-> type, msg |-> msg]

(* The content items of mcp.types; an image carries its MIME type and what *)
(* it shows.                                                               *)
TextContent(text) == [type |-> "text", text |-> text]

ImageContent(data) == [type |-> "image", text |-> data]

(* utils.py, get_api_token without the token in the environment.           *)
TokenError == Exc("ValueError", <<"DATAWRAPPER_ACCESS_TOKEN environment variable is required">>)

(* The exception json_to_dataframe raised.                                 *)
DataError(n) == Exc(n.exc, <<n.reason, n.got>>)

(* The exception of the datawrapper package for a remote operation that    *)
(* failed.                                                                 *)
RemoteFailure(op, id) == Exc("Exception", <<op, id>>)

(* The handler ends by raising exc, or by returning items.                 *)
Raised(c, outcome, exc, rem) == Done([c EXCEPT !.raised = <<exc>>], outcome, rem)

Returned(c, outcome, items, rem) == Done([c EXCEPT !.response = items], outcome, rem)

(* A variant of the text without the validator's message.                  *)
InvalidConfigurationOnly(error, pointer) ==
    <<TextContent(<<"Invalid chart configuration", pointer>>)>>

(* The text both update_chart functions and both create_chart functions    *)
(* return when the validation of chart_config raised error.                *)
InvalidConfiguration(error, pointer) ==
    <<TextContent(<<"Invalid chart configuration">> \o error \o <<pointer>>)>>

(***************************************************************************)
(* handlers/update.py, lines 61-73: the alias table built from             *)
(* chart.model_fields, and the loop that resolves each key of chart_config *)
(* and sets it on the instance.                                            *)
(***************************************************************************)
Put(table, key, value) ==
    [k \in DOMAIN table \cup {key} |-> IF k = key THEN value ELSE table[k]]

(* A variant of the table that holds the field names but no alias.         *)
alias_to_field_names_only(fields, table) ==
    [k \in {fields[i].name : i \in 1..Len(fields)} |-> k]

RECURSIVE alias_to_field(_, _)
alias_to_field(fields, table) ==
    IF fields = <<>> THEN table
    ELSE LET fld == Head(fields)
             named == Put(table, fld.name, fld.name)
         IN  alias_to_field(Tail(fields),
                            IF fld.alias # "" THEN Put(named, fld.alias, fld.name) ELSE named)

EmptyTable == [k \in {} |-> ""]

field_name(table, key) == IF key \in DOMAIN table THEN table[key] ELSE key

(* The table of the chart classes, whose fields are the same.              *)
AliasTable == alias_to_field(model_fields, EmptyTable)

(* The loop stops at the first setattr that raises; what was set before it *)
(* stays set on the instance.                                              *)
RECURSIVE SetAttrs(_, _, _, _)
SetAttrs(chart, table, items, written) ==
    IF items = <<>> THEN [ok |-> TRUE, chart |-> chart, written |-> written, error |-> <<>>]
    ELSE LET name == field_name(table, Head(items).key)
             r == SetAttr(chart, name, Head(items).value)
         IN  IF r.ok THEN SetAttrs(r.chart, table, Tail(items), Append(written, name))
             ELSE [ok |-> FALSE, chart |-> r.chart, written |-> Append(written, name),
                   error |-> r.error]

(***************************************************************************)
(* The tail shared by both update_chart functions: chart.update and the    *)
(* success response, or the remote failure raised.                         *)
(***************************************************************************)
(* A variant that issues the update a second time when it failed.          *)
IssueUpdateAgain(c, chart, rem, remote_ok) ==
    LET r == RemoteUpdate(rem, chart, remote_ok)
        c1 == [c EXCEPT !.chart = <<chart>>, !.submitted = <<chart>>,
                        !.ops = IF r.ok THEN Append(c.ops, "update")
                                ELSE c.ops \o <<"update", "update">>]
    IN  IF r.ok
        THEN Returned(c1, "success",
                      <<TextContent(<<"Chart updated successfully!", chart.f["chart_id"].s>>)>>,
                      r.remote)
        ELSE Raised(c1, "remote_error", RemoteFailure("update", chart.f["chart_id"].s), rem)

IssueUpdate(c, chart, rem, remote_ok) ==
    LET r == RemoteUpdate(rem, chart, remote_ok)
        c1 == [c EXCEPT !.chart = <<chart>>, !.submitted = <<chart>>,
                        !.ops = Append(c.ops, "update")]
    IN  IF r.ok
        THEN Returned(c1, "success",
                      <<TextContent(<<"Chart updated successfully!", chart.f["chart_id"].s>>)>>,
                      r.remote)
        ELSE Raised(c1, "remote_error", RemoteFailure("update", chart.f["chart_id"].s), rem)

(***************************************************************************)
(* handlers/update.py: update_chart.                                       *)
(***************************************************************************)
(* A variant that does not return on a validation failure.                 *)
update_config_no_return(c, chart, items, rem, remote_ok) ==
    LET r == SetAttrs(chart, AliasTable, items, <<>>)
        c1 == [c EXCEPT !.written = r.written, !.chart = <<r.chart>>]
        u == IssueUpdate(c1, r.chart, rem, remote_ok)
    IN  IF r.ok THEN u ELSE Done(u.call, "invalid_config", u.remote)

update_config(c, chart, items, rem, remote_ok) ==
    LET r == SetAttrs(chart, AliasTable, items, <<>>)
        c1 == [c EXCEPT !.written = r.written, !.chart = <<r.chart>>]
    IN  IF r.ok THEN IssueUpdate(c1, r.chart, rem, remote_ok)
        ELSE Returned(c1, "invalid_config",
                      InvalidConfiguration(r.error, "Use get_chart_schema"), rem)

update_chart(tok, rem, args, remote_ok) ==
    LET c0 == Started("update_chart", "handlers", args, rem)
    IN  IF ~tok THEN Raised(c0, "token_error", TokenError, rem)
        ELSE LET got == fetch(rem, args.chart_id)
                 c1 == [c0 EXCEPT !.ops = <<"fetch">>, !.fetched = got, !.chart = got]
             IN  IF got = <<>>
                 THEN Raised(c1, "fetch_error", RemoteFailure("fetch", args.chart_id), rem)
                 ELSE LET n == IF args.has_data THEN json_to_dataframe(NoFiles, args.data, 0)
                                                ELSE Ok(EmptyDF)
                          chart == IF args.has_data
                                   THEN [got[1] EXCEPT !.f["data"] = DF(n.df)]
                                   ELSE got[1]
                          c2 == IF args.has_data /\ n.ok
                                THEN [c1 EXCEPT !.df = <<n.df>>, !.chart = <<chart>>]
                                ELSE c1
                      IN  IF ~n.ok THEN Raised(c2, "data_error", DataError(n), rem)
                          ELSE IF args.has_config
                               THEN update_config(c2, chart, args.config, rem, remote_ok)
                               ELSE IssueUpdate(c2, chart, rem, remote_ok)

(***************************************************************************)
(* server.py: update_chart.  The current fields are dumped, overlaid with  *)
(* chart_config, validated as a whole, and the validated fields other than *)
(* data are set on the instance.                                           *)
(***************************************************************************)
(* A variant of the overlay in which the current value wins a collision.   *)
MergeCurrentWins(mapping, items) ==
    [k \in DOMAIN mapping \cup {items[i].key : i \in 1..Len(items)} |->
        IF k \in DOMAIN mapping THEN mapping[k]
        ELSE items[CHOOSE i \in 1..Len(items) : items[i].key = k].value]

RECURSIVE Merge(_, _)
Merge(mapping, items) ==
    IF items = <<>> THEN mapping
    ELSE Merge(Put(mapping, Head(items).key, Head(items).value), Tail(items))

(* The items of a dumped mapping, in field order.                          *)
DumpItems(mapping) ==
    LET idx == {i \in 1..Len(model_fields) : model_fields[i].name \in DOMAIN mapping}
        nth(k) == CHOOSE i \in idx : Cardinality({j \in idx : j < i}) = k - 1
    IN  [k \in 1..Cardinality(idx) |->
            [key |-> model_fields[nth(k)].name, value |-> mapping[model_fields[nth(k)].name]]]

server_update_config(c, chart, items, rem, remote_ok, extra) ==
    LET current_config == model_dump(chart, {})
        merged_config == Merge(current_config, items)
        v == model_validate(chart.cls, merged_config, extra)
        c1 == [c EXCEPT !.validated = <<merged_config>>]
    IN  IF ~v.ok THEN Returned(c1, "invalid_config",
                               InvalidConfiguration(v.error, "Use get_chart_schema"), rem)
        ELSE LET r == SetAttrs(chart, EmptyTable,
                               DumpItems(model_dump(v.obj[1], {"data"})), <<>>)
                 c2 == [c1 EXCEPT !.written = r.written, !.chart = <<r.chart>>]
             IN  IssueUpdate(c2, r.chart, rem, remote_ok)

server_update_chart(tok, rem, args, remote_ok, extra) ==
    LET c0 == Started("update_chart", "server", args, rem)
    IN  IF ~tok THEN Raised(c0, "token_error", TokenError, rem)
        ELSE LET got == fetch(rem, args.chart_id)
                 c1 == [c0 EXCEPT !.ops = <<"fetch">>, !.fetched = got, !.chart = got]
             IN  IF got = <<>>
                 THEN Raised(c1, "fetch_error", RemoteFailure("fetch", args.chart_id), rem)
                 ELSE LET n == IF args.has_data THEN server_json_to_dataframe(args.data)
                                                ELSE Ok(EmptyDF)
                          chart == IF args.has_data
                                   THEN [got[1] EXCEPT !.f["data"] = DF(n.df)]
                                   ELSE got[1]
                          c2 == IF args.has_data /\ n.ok
                                THEN [c1 EXCEPT !.df = <<n.df>>, !.chart = <<chart>>]
                                ELSE c1
                      IN  IF ~n.ok THEN Raised(c2, "data_error", DataError(n), rem)
                          ELSE IF args.has_config
                               THEN server_update_config(c2, chart, args.config, rem,
                                                         remote_ok, extra)
                               ELSE IssueUpdate(c2, chart, rem, remote_ok)

(***************************************************************************)
(* create_chart (handlers/create.py and server.py): the token, the data,   *)
(* the validation of chart_config by the class of chart_type, then         *)
(* chart.create.                                                           *)
(***************************************************************************)
create_chart(variant, tok, rem, args, remote_ok, extra) ==
    LET c0 == Started("create_chart", variant, args, rem)
    IN  IF ~tok THEN Raised(c0, "token_error", TokenError, rem)
        ELSE LET n == IF variant = "server" THEN server_json_to_dataframe(args.data)
                                            ELSE json_to_dataframe(NoFiles, args.data, 0)
             IN  IF ~n.ok THEN Raised(c0, "data_error", DataError(n), rem)
                 ELSE LET mapping == Merge(EmptyTable, args.config)
                          v == model_validate(CHART_CLASSES[args.chart_type], mapping, extra)
                          c1 == [c0 EXCEPT !.df = <<n.df>>, !.validated = <<mapping>>]
                      IN  IF ~v.ok
                          THEN Returned(c1, "invalid_config",
                                        InvalidConfiguration(
                                            v.error, "Use get_chart_schema with chart_type"),
                                        rem)
                          ELSE LET chart == [v.obj[1] EXCEPT !.f["data"] = DF(n.df)]
                                   r == RemoteCreate(rem, chart, remote_ok)
                                   c2 == [c1 EXCEPT !.chart = <<r.chart>>,
                                                    !.submitted = <<chart>>,
                                                    !.ops = <<"create">>]
                               IN  IF r.ok
                                   THEN Returned(c2, "success",
                                                 <<TextContent(
                                                     <<"Chart created successfully!",
                                                       r.chart.f["chart_id"].s>>)>>,
                                                 r.remote)
                                   ELSE Raised(c2, "remote_error",
                                               RemoteFailure("create", ""), rem)

(***************************************************************************)
(* publish_chart, delete_chart, export_chart_png and get_chart_info        *)
(* (handlers/ and server.py): the token, get_chart, then the operation on  *)
(* the instance get_chart returned.  The functions of handlers/ catch the  *)
(* exception of the remote operation, log it and raise it again; those of  *)
(* server.py let it pass.  published is the set of charts with a public    *)
(* version.  The result carries the record, the store and that set.        *)
(***************************************************************************)
Published(r, pub) == [call |-> r.call, remote |-> r.remote, published |-> pub]

get_public_url(pub, id) == IF id \in pub THEN "public_url" ELSE ""

(* A variant that asks the store to publish once more when it failed.      *)
publish_chart_retrying(variant, tok, rem, pub, args, remote_ok) ==
    LET c0 == Started("publish_chart", variant, args, rem)
        got == fetch(rem, args.chart_id)
        c1 == [c0 EXCEPT !.ops = <<"fetch">>, !.fetched = got, !.chart = got]
        c2 == [c1 EXCEPT !.ops = IF remote_ok THEN <<"fetch", "publish">>
                                 ELSE <<"fetch", "publish", "publish">>,
                         !.submitted = got]
    IN  IF ~tok THEN Published(Raised(c0, "token_error", TokenError, rem), pub)
        ELSE IF got = <<>>
             THEN Published(Raised(c1, "fetch_error",
                                   RemoteFailure("fetch", args.chart_id), rem), pub)
             ELSE Published(Returned(c2, "success",
                                     <<TextContent(<<"Chart published successfully!",
                                                     args.chart_id, "public_url">>)>>, rem),
                            pub \cup {args.chart_id})

publish_chart(variant, tok, rem, pub, args, remote_ok) ==
    LET c0 == Started("publish_chart", variant, args, rem)
    IN  IF ~tok THEN Published(Raised(c0, "token_error", TokenError, rem), pub)
        ELSE LET got == fetch(rem, args.chart_id)
                 c1 == [c0 EXCEPT !.ops = <<"fetch">>, !.fetched = got, !.chart = got]
                 c2 == [c1 EXCEPT !.ops = <<"fetch", "publish">>, !.submitted = got]
             IN  IF got = <<>>
                 THEN Published(Raised(c1, "fetch_error",
                                       RemoteFailure("fetch", args.chart_id), rem), pub)
                 ELSE IF remote_ok
                      THEN Published(
                               Returned(c2, "success",
                                        <<TextContent(<<"Chart published successfully!",
                                                        args.chart_id,
                                                        get_public_url(pub \cup {args.chart_id},
                                                                       args.chart_id)>>)>>,
                                        rem),
                               pub \cup {args.chart_id})
                      ELSE Published(Raised(c2, "remote_error",
                                            RemoteFailure("publish", args.chart_id), rem),
                                     pub)

delete_chart(variant, tok, rem, pub, args, remote_ok) ==
    LET c0 == Started("delete_chart", variant, args, rem)
    IN  IF ~tok THEN Published(Raised(c0, "token_error", TokenError, rem), pub)
        ELSE LET got == fetch(rem, args.chart_id)
                 c1 == [c0 EXCEPT !.ops = <<"fetch">>, !.fetched = got, !.chart = got]
                 c2 == [c1 EXCEPT !.ops = <<"fetch", "delete">>, !.submitted = got]
             IN  IF got = <<>>
                 THEN Published(Raised(c1, "fetch_error",
                                       RemoteFailure("fetch", args.chart_id), rem), pub)
                 ELSE IF remote_ok
                      THEN Published(
                               Returned(c2, "success",
                                        <<TextContent(<<"Chart deleted successfully!",
                                                        args.chart_id>>)>>,
                                        [rem EXCEPT ![args.chart_id] = <<>>]),
                               pub \ {args.chart_id})
                      ELSE Published(Raised(c2, "remote_error",
                                            RemoteFailure("delete", args.chart_id), rem),
                                     pub)

(* The image is that of the instance get_chart returned; the size and      *)
(* style parameters are handed to export_png as given.                     *)
export_chart_png(variant, tok, rem, pub, args, remote_ok) ==
    LET c0 == Started("export_chart_png", variant, args, rem)
    IN  IF ~tok THEN Published(Raised(c0, "token_error", TokenError, rem), pub)
        ELSE LET got == fetch(rem, args.chart_id)
                 c1 == [c0 EXCEPT !.ops = <<"fetch">>, !.fetched = got, !.chart = got]
                 c2 == [c1 EXCEPT !.ops = <<"fetch", "export_png">>, !.submitted = got]
             IN  IF got = <<>>
                 THEN Published(Raised(c1, "fetch_error",
                                       RemoteFailure("fetch", args.chart_id), rem), pub)
                 ELSE IF remote_ok
                      THEN Published(
                               Returned(c2, "success",
                                        <<ImageContent(<<"image/png", got[1].f["chart_id"].s,
                                                         got[1].f["title"].s>>)>>,
                                        rem),
                               pub)
                      ELSE Published(Raised(c2, "remote_error",
                                            RemoteFailure("export_png", args.chart_id), rem),
                                     pub)

get_chart_info(variant, tok, rem, pub, args) ==
    LET c0 == Started("get_chart", variant, args, rem)
    IN  IF ~tok THEN Published(Raised(c0, "token_error", TokenError, rem), pub)
        ELSE LET got == fetch(rem, args.chart_id)
                 c1 == [c0 EXCEPT !.ops = <<"fetch">>, !.fetched = got, !.chart = got]
             IN  IF got = <<>>
                 THEN Published(Raised(c1, "fetch_error",
                                       RemoteFailure("fetch", args.chart_id), rem), pub)
                 ELSE Published(
                          Returned(c1, "success",
                                   <<TextContent(<<got[1].f["chart_id"].s,
                                                   got[1].f["title"].s,
                                                   got[1].f["chart_type"].s,
                                                   get_public_url(pub, args.chart_id)>>)>>,
                                   rem),
                          pub)

(* get_chart_schema: no token and no remote operation; a chart_type that   *)
(* is no key of CHART_CLASSES raises KeyError.                             *)
get_chart_schema(variant, rem, pub, args) ==
    LET c0 == Started("get_chart_schema", variant, args, rem)
    IN  IF args.chart_type \in ChartTypeKeys
        THEN Published(Returned(c0, "success",
                                <<TextContent(<<args.chart_type,
                                                CHART_CLASSES[args.chart_type]>>)>>, rem),
                       pub)
        ELSE Published(Raised(c0, "key_error", Exc("KeyError", <<args.chart_type>>), rem),
                       pub)

(***************************************************************************)
(* server.py: call_tool.  It runs the function of server.py the name       *)
(* stands for, raises ValueError for any other name, and turns every       *)
(* exception of class Exception into one text item.                        *)
(***************************************************************************)
ExceptionClasses == {"Exception", "ValueError", "KeyError", "RecursionError"}

(* A variant that catches ValueError only.                                 *)
CatchValueError(r) ==
    IF r.call.raised # <<>> /\ r.call.raised[1].type = "ValueError"
    THEN [r EXCEPT !.call.variant = "call_tool",
                   !.call.caught = r.call.raised,
                   !.call.raised = <<>>,
                   !.call.response = <<TextContent(<<"Error">> \o r.call.raised[1].msg)>>]
    ELSE [r EXCEPT !.call.variant = "call_tool"]

Catch(r) ==
    IF r.call.raised # <<>> /\ r.call.raised[1].type \in ExceptionClasses
    THEN [r EXCEPT !.call.variant = "call_tool",
                   !.call.caught = r.call.raised,
                   !.call.raised = <<>>,
                   !.call.response = <<TextContent(<<"Error">> \o r.call.raised[1].msg)>>]
    ELSE [r EXCEPT !.call.variant = "call_tool"]

call_tool(name, tok, rem, pub, args, remote_ok, extra) ==
    IF name = "create_chart"
    THEN Catch(Published(create_chart("server", tok, rem, args, remote_ok, extra), pub))
    ELSE IF name = "get_chart_schema"
    THEN Catch(get_chart_schema("server", rem, pub, args))
    ELSE IF name = "publish_chart"
    THEN Catch(publish_chart("server", tok, rem, pub, args, remote_ok))
    ELSE IF name = "get_chart"
    THEN Catch(get_chart_info("server", tok, rem, pub, args))
    ELSE IF name = "update_chart"
    THEN Catch(Published(server_update_chart(tok, rem, args, remote_ok, extra), pub))
    ELSE IF name = "delete_chart"
    THEN Catch(delete_chart("server", tok, rem, pub, args, remote_ok))
    ELSE IF name = "export_chart_png"
    THEN Catch(export_chart_png("server", tok, rem, pub, args, remote_ok))
    ELSE Catch(Published(Raised(Started(name, "server", args, rem), "unknown_tool",
                                Exc("ValueError", <<"Unknown tool", name>>), rem), pub))

(***************************************************************************)
(* logging.py: correlation_id is a ContextVar with default '' (written 0   *)
(* here; an identifier is a positive number).  Every execution context     *)
(* holds its own value; a context made for a new task starts as a copy of  *)
(* the context that makes it.  uuid4 gives an identifier never given       *)
(* before; nothing in the package sets the variable back to ''.            *)
(***************************************************************************)
Contexts == {"main", "task1", "task2"}

NoCid == 0

Max(ns) == CHOOSE n \in ns : \A m \in ns : m <= n

uuid4(var) == 1 + Max({var[c] : c \in DOMAIN var})

(* A variant that makes a new identifier on every call.                    *)
get_correlation_id_always_new(var, c) ==
    [cid |-> uuid4(var), var |-> [var EXCEPT ![c] = uuid4(var)]]

(* A variant that returns a new identifier and does not keep it.           *)
get_correlation_id_not_kept(var, c) ==
    IF var[c] = NoCid
    THEN [cid |-> uuid4(var), var |-> var]
    ELSE [cid |-> var[c], var |-> var]

get_correlation_id(var, c) ==
    IF var[c] = NoCid
    THEN [cid |-> uuid4(var), var |-> [var EXCEPT ![c] = uuid4(var)]]
    ELSE [cid |-> var[c], var |-> var]

(* A request whose handler asked for its identifier in context c; made     *)
(* tells whether the context held none before.                             *)
Request(c, cid, made) == [context |-> c, cid |-> cid, made |-> made]

(***************************************************************************)
(* logging.py: setup_logging.  The logger 'datawrapper_mcp' has a level    *)
(* and a list of handlers; getattr(logging, name) gives the number of a    *)
(* level name and nothing for any other name.  An environment variable is  *)
(* <<>> when unset and <<value>> otherwise.                                *)
(***************************************************************************)
INFO == 20

upper(s) == IF s = "debug" THEN "DEBUG" ELSE IF s = "info" THEN "INFO" ELSE s

lower(s) == IF s = "JSON" THEN "json" ELSE s

getattr_logging(name) ==
    IF name = "NOTSET" THEN <<0>>
    ELSE IF name = "DEBUG" THEN <<10>>
    ELSE IF name = "INFO" THEN <<20>>
    ELSE IF name \in {"WARNING", "WARN"} THEN <<30>>
    ELSE IF name = "ERROR" THEN <<40>>
    ELSE IF name \in {"CRITICAL", "FATAL"} THEN <<50>>
    ELSE <<>>

getenv(var, default) == IF var = <<>> THEN default ELSE var[1]

(* A handler: who attached it, its number in order of creation, its level  *)
(* and its formatter.                                                      *)
Handler(owner, id, level, formatter) ==
    [owner |-> owner, id |-> id, level |-> level, formatter |-> formatter]

(* The logger before any configuration: level NOTSET, no handler.  made    *)
(* counts the handlers created so far, announced tells whether the last    *)
(* setup_logging call got its startup message through the logger's level,  *)
(* removed holds the handlers that call detached.                          *)
NewLogger ==
    [level |-> 0, handlers |-> <<>>, made |-> 0, announced |-> FALSE, removed |-> <<>>]

(* The process as far as logging goes: the two environment variables, the  *)
(* logger 'datawrapper_mcp' and the last operation that touched them.      *)
getLogger ==
    [environ |-> [level |-> <<>>, format |-> <<>>], log |-> NewLogger, last |-> "import"]

(* A variant that keeps the handlers already attached.                     *)
setup_logging_keeping_handlers(lg, level_env, format_env) ==
    LET log_level == upper(getenv(level_env, "INFO"))
        log_format == lower(getenv(format_env, "text"))
        found == getattr_logging(log_level)
        numeric_level == IF found = <<>> THEN INFO ELSE found[1]
        console_handler == Handler("setup_logging", lg.made + 1, numeric_level,
                                   IF log_format = "json" THEN "JsonFormatter"
                                   ELSE "Formatter")
    IN  [level |-> numeric_level, handlers |-> Append(lg.handlers, console_handler),
         made |-> lg.made + 1, announced |-> numeric_level \in 1..INFO,
         removed |-> <<>>]

setup_logging(lg, level_env, format_env) ==
    LET log_level == upper(getenv(level_env, "INFO"))
        log_format == lower(getenv(format_env, "text"))
        found == getattr_logging(log_level)
        numeric_level == IF found = <<>> THEN INFO ELSE found[1]
        console_handler == Handler("setup_logging", lg.made + 1, numeric_level,
                                   IF log_format = "json" THEN "JsonFormatter"
                                   ELSE "Formatter")
    IN  [level |-> numeric_level, handlers |-> <<console_handler>>,
         made |-> lg.made + 1, announced |-> numeric_level \in 1..INFO,
         removed |-> lg.handlers]

(* Code outside the package attaches a handler of its own.                 *)
addHandler(lg) ==
    [lg EXCEPT !.handlers = Append(lg.handlers, Handler("external", lg.made + 1, 0, "Formatter")),
               !.made = lg.made + 1]

(* The alias table of one schema: the fields, whether the table has been   *)
(* built, and the table.                                                   *)
NoAliasTable == [fields |-> <<>>, built |-> FALSE, table |-> EmptyTable]

(***************************************************************************)
(* The inputs the model draws from.                                        *)
(***************************************************************************)
Table0 == DataFrameFromRecords(<<Row(<<"a">>, <<"0">>)>>)

Table2 == DataFrameFromRecords(<<Row(<<"b">>, <<"2">>)>>)

GoodList == Data("list", <<Row(<<"a">>, <<"1">>)>>)

EmptyList == Data("list", <<>>)

DataArgs == {GoodList, EmptyList}

Item(key, value) == [key |-> key, value |-> value]

PatchItems ==
    { Item("title", S("t1")), Item("title", I("7")),
      Item("source_name", S("s1")), Item("source-name", S("s1")),
      Item("chart_type", S("column-chart")), Item("chart-type", S("column-chart")),
      Item("chart_id", S("c2")), Item("data", L(Table2)), Item("metadata", S("m")) }

DistinctKeys(items) == \A i, j \in 1..Len(items) : items[i].key = items[j].key => i = j

Patches == {p \in SeqsUpTo(PatchItems, MaxPatchLen) : DistinctKeys(p)}

Chart(cls, id, title, source, table) ==
    [cls |-> cls,
     f |-> [n \in FieldNames |->
              IF n = "chart_type" THEN S(TypeLiteral(cls))
              ELSE IF n = "title" THEN S(title)
                   ELSE IF n = "source_name" THEN S(source)
                        ELSE IF n = "data" THEN DF(table) ELSE S(id)]]

IdleNorm ==
    [input |-> NoData, files |-> NoFiles, done |-> FALSE, result |-> Raise("", ""),
     server |-> <<>>, serial |-> <<>>, again |-> <<>>]

(***************************************************************************)
(* The server starts with the token in its environment or not, with chart *)
(* models that ignore or forbid extra keys, and with a remote store that   *)
(* holds a bar chart, or a bar chart and a column chart.                   *)
(***************************************************************************)
Stores ==
    { [id \in ChartIds |->
         IF id = "c1" THEN <<Chart("BarChart", "c1", "t0", "s0", Table0)>> ELSE <<>>],
      [id \in ChartIds |->
         IF id = "c1" THEN <<Chart("BarChart", "c1", "t0", "s0", Table0)>>
         ELSE <<Chart("ColumnChart", "c2", "t1", "s0", Table0)>>] }

Init ==
    /\ token \in BOOLEAN
    /\ extra_policy \in {"ignore", "forbid"}
    /\ remote \in Stores
    /\ call = NoCall
    /\ ncalls = 0
    /\ norm = IdleNorm
    /\ correlation_id = [c \in {"main"} |-> NoCid]
    /\ requests = <<>>
    /\ logger = getLogger
    /\ alias_table = NoAliasTable
    /\ published = {}

Idle == call.tool = "none"

Finish(r) ==
    /\ call' = r.call
    /\ remote' = r.remote
    /\ ncalls' = ncalls + 1
    /\ UNCHANGED <<token, extra_policy, norm, logger, alias_table, published>>

(* The handlers of handlers/ ask for the correlation identifier first; the *)
(* server runs them in its main context.  Those of server.py do not.       *)
Identify(c) ==
    LET g == get_correlation_id(correlation_id, c)
    IN  /\ correlation_id' = g.var
        /\ requests' = Append(requests, Request(c, g.cid, correlation_id[c] = NoCid))

UpdateArgs ==
    {Args(id, "", has_data, IF has_data THEN d ELSE NoData, TRUE, p) :
        id \in ChartIds, has_data \in BOOLEAN, d \in DataArgs, p \in Patches}
    \cup {Args(id, "", has_data, IF has_data THEN d ELSE NoData, FALSE, <<>>) :
        id \in ChartIds, has_data \in BOOLEAN, d \in DataArgs}

CreateArgs ==
    {Args("", t, TRUE, d, TRUE, p) : t \in ChartTypeKeys, d \in DataArgs, p \in Patches}

UpdateChart ==
    /\ Idle
    /\ ncalls < MaxCalls
    /\ \E args \in UpdateArgs, remote_ok \in BOOLEAN :
          Finish(update_chart(token, remote, args, remote_ok))
    /\ Identify("main")

ServerUpdateChart ==
    /\ Idle
    /\ ncalls < MaxCalls
    /\ \E args \in UpdateArgs, remote_ok \in BOOLEAN :
          Finish(server_update_chart(token, remote, args, remote_ok, extra_policy))
    /\ UNCHANGED <<correlation_id, requests>>

CreateChart ==
    /\ Idle
    /\ ncalls < MaxCalls
    /\ \E args \in CreateArgs, remote_ok \in BOOLEAN :
          Finish(create_chart("handlers", token, remote, args, remote_ok, extra_policy))
    /\ Identify("main")

(* The response is returned and the handler's local objects are dropped.   *)
Respond ==
    /\ ~Idle
    /\ call' = NoCall
    /\ UNCHANGED <<token, extra_policy, remote, ncalls, norm, correlation_id, requests,
                   logger, alias_table, published>>

Next == UpdateChart \/ ServerUpdateChart \/ CreateChart \/ Respond

Spec == Init /\ [][Next]_vars

(***************************************************************************)
(* The normaliser on its own: json_to_dataframe applied to one input on    *)
(* one filesystem, then the table written out as JSON text and normalised  *)
(* again.  The inputs are record lists, column maps, texts and paths.      *)
(***************************************************************************)
RowKeys == {<<>>, <<"a">>, <<"b">>, <<"a", "b">>, <<"b", "a">>}

CellValues == {"1", "2"}

Rows == UNION {{Row(keys, vals) : vals \in [1..Len(keys) -> CellValues]} : keys \in RowKeys}

ListElems == Rows \cup {Scalar("5")}

ListInputs == {Data("list", elems) : elems \in SeqsUpTo(ListElems, MaxRows)}

(* The values of a column map: lists of cells, or a scalar.                *)
Entries(name) ==
    {Column(name, vals) : vals \in SeqsUpTo(CellValues, MaxRows)}
        \cup {Elem("int", <<name>>, <<"5">>)}

DictInputs ==
    {Data("dict", <<>>)}
        \cup {Data("dict", <<e>>) : e \in Entries("a")}
        \cup {Data("dict", <<e1, e2>>) : e1 \in Entries("a"), e2 \in Entries("b")}
        \cup {Data("dict", <<e2, e1>>) : e1 \in Entries("a"), e2 \in Entries("b")}

(* A path as text: no newline and no comma.  The path [] starts with a     *)
(* bracket and is JSON text (the empty list); the others are not JSON.     *)
PathStr(p) ==
    Str(p, ExtOf(p), FALSE, FALSE, p = "[]", p = "[]",
        IF p = "[]" THEN <<Data("list", <<>>)>> ELSE <<>>)

(* What a JSON text or a JSON file can decode to.                          *)
Decoded ==
    { Data("list", <<Row(<<"a">>, <<"1">>)>>), Data("list", <<>>),
      Data("dict", <<Column("a", <<"1">>)>>), Data("int", <<>>) }
        \cup {PathStr(p) : p \in Paths}

(* Texts that name no path of the filesystem.  A text that decodes to a    *)
(* list or a dict starts with a bracket once stripped, one that starts     *)
(* with a bracket decodes to nothing else, and a text that ends in .csv    *)
(* or .json is not JSON.                                                   *)
Texts ==
    { s \in { Str("text", ext, nl, cm, rl, ld, pr) :
                ext \in {"", "csv", "json"}, nl \in BOOLEAN, cm \in BOOLEAN,
                rl \in BOOLEAN, ld \in BOOLEAN, pr \in {<<>>} \cup {<<d>> : d \in Decoded} } :
        LET x == s.text[1]
        IN  /\ x.rawlead => x.lead
            /\ x.parsed # <<>> => (x.lead <=> x.parsed[1].t \in {"list", "dict"})
            /\ x.parsed # <<>> => x.ext = "" }

CsvLike == Str("text", "", TRUE, TRUE, FALSE, FALSE, <<>>)

HeaderOnly == [columns |-> <<"a">>, rows |-> <<>>]

JsonFiles ==
    {NoFile, File(<<>>, <<>>), File(<<CsvLike>>, <<>>)}
        \cup {File(<<d>>, <<>>) : d \in Decoded}

CsvFiles == {NoFile, File(<<>>, <<>>), File(<<>>, <<Table2>>), File(<<>>, <<HeaderOnly>>)}

OtherFiles == {NoFile, File(<<>>, <<>>)}

FileSystems ==
    { [p \in Paths |-> IF p = "a.json" THEN a
                       ELSE IF p = "b.json" THEN b
                            ELSE IF p = "c.csv" THEN c
                                 ELSE IF p = "d.txt" THEN d ELSE e] :
        a \in JsonFiles, b \in JsonFiles, c \in CsvFiles, d \in OtherFiles,
        e \in OtherFiles }

NormInputs == ListInputs \cup DictInputs \cup Texts

InitNorm ==
    /\ token = TRUE
    /\ extra_policy = "ignore"
    /\ remote = [id \in ChartIds |-> <<>>]
    /\ call = NoCall
    /\ ncalls = 0
    /\ correlation_id = [c \in {"main"} |-> NoCid]
    /\ requests = <<>>
    /\ logger = getLogger
    /\ alias_table = NoAliasTable
    /\ published = {}
    /\ \/ \E d \in NormInputs : norm = [IdleNorm EXCEPT !.input = d]
       \/ \E p \in Paths, fs \in FileSystems :
             norm = [IdleNorm EXCEPT !.input = PathStr(p), !.files = fs]

Normalize ==
    /\ ~norm.done
    /\ norm' = [norm EXCEPT !.done = TRUE,
                            !.result = json_to_dataframe(norm.files, norm.input, 0)]
    /\ UNCHANGED <<token, extra_policy, remote, call, ncalls, correlation_id, requests,
                   logger, alias_table, published>>

(* The same input handed to json_to_dataframe of server.py, which reads no *)
(* file.                                                                   *)
ServerNormalize ==
    /\ norm.done
    /\ norm.server = <<>>
    /\ norm' = [norm EXCEPT !.server = <<server_json_to_dataframe(norm.input)>>]
    /\ UNCHANGED <<token, extra_policy, remote, call, ncalls, correlation_id, requests,
                   logger, alias_table, published>>

(* The table as JSON text: a list with one mapping per row, each holding   *)
(* every column (null where the cell is missing), or a mapping of each     *)
(* column name to the list of its cells.  The text is compact, so it has   *)
(* no newline, and it has a comma when it has more than one item.          *)
serialize(df, shape) ==
    LET value == IF shape = "records"
                 THEN Data("list", [i \in 1..Len(df.rows) |-> Row(df.columns, df.rows[i])])
                 ELSE Data("dict", [j \in 1..Len(df.columns) |->
                                      Column(df.columns[j],
                                             [i \in 1..Len(df.rows) |-> df.rows[i][j]])])
    IN  Str("text", "", FALSE, Len(df.rows) > 1 \/ Len(df.columns) > 1, TRUE, TRUE, <<value>>)

Serialize ==
    /\ norm.done
    /\ norm.result.ok
    /\ norm.serial = <<>>
    /\ \E shape \in {"records", "columns"} :
          norm' = [norm EXCEPT !.serial = <<serialize(norm.result.df, shape)>>]
    /\ UNCHANGED <<token, extra_policy, remote, call, ncalls, correlation_id, requests,
                   logger, alias_table, published>>

Renormalize ==
    /\ norm.serial # <<>>
    /\ norm.again = <<>>
    /\ norm' = [norm EXCEPT !.again = <<json_to_dataframe(norm.files, norm.serial[1], 0)>>]
    /\ UNCHANGED <<token, extra_policy, remote, call, ncalls, correlation_id, requests,
                   logger, alias_table, published>>

NextNorm == Normalize \/ ServerNormalize \/ Serialize \/ Renormalize

SpecNorm == InitNorm /\ [][NextNorm]_vars

(***************************************************************************)
(* Requests and their correlation identifiers: a task is started in a new  *)
(* context copied from a live one, and a handler of handlers/ runs in a    *)
(* live context and asks for its identifier on entry.                      *)
(***************************************************************************)
InitCid ==
    /\ token = TRUE
    /\ extra_policy = "ignore"
    /\ remote = [id \in ChartIds |-> <<>>]
    /\ call = NoCall
    /\ ncalls = 0
    /\ norm = IdleNorm
    /\ correlation_id = [c \in {"main"} |-> NoCid]
    /\ requests = <<>>
    /\ logger = getLogger
    /\ alias_table = NoAliasTable
    /\ published = {}

copy_context ==
    /\ \E parent \in DOMAIN correlation_id, child \in Contexts \ DOMAIN correlation_id :
          correlation_id' = [c \in DOMAIN correlation_id \cup {child} |->
                               IF c = child THEN correlation_id[parent]
                               ELSE correlation_id[c]]
    /\ UNCHANGED <<token, extra_policy, remote, call, ncalls, norm, requests,
                   logger, alias_table, published>>

HandleRequest ==
    /\ Len(requests) < MaxRequests
    /\ \E c \in DOMAIN correlation_id : Identify(c)
    /\ UNCHANGED <<token, extra_policy, remote, call, ncalls, norm, logger, alias_table, published>>

NextCid == copy_context \/ HandleRequest

SpecCid == InitCid /\ [][NextCid]_vars

(***************************************************************************)
(* The server over several invocations: every handler of handlers/ and,    *)
(* through call_tool, every function of server.py, one after the other on  *)
(* the same remote store.  call holds the record of the last invocation.   *)
(***************************************************************************)
ToolNames ==
    {"create_chart", "get_chart_schema", "publish_chart", "get_chart", "update_chart",
     "delete_chart", "export_chart_png"}

OpsPatches ==
    { <<Item("title", S("t1"))>>, <<Item("title", I("7"))>>,
      <<Item("source-name", S("s1")), Item("metadata", S("m"))>> }

OpsUpdateArgs ==
    {Args(id, "", has_data, IF has_data THEN d ELSE NoData, TRUE, p) :
        id \in ChartIds, has_data \in BOOLEAN, d \in DataArgs, p \in OpsPatches}
    \cup {Args(id, "", has_data, IF has_data THEN d ELSE NoData, FALSE, <<>>) :
        id \in ChartIds, has_data \in BOOLEAN, d \in DataArgs}

OpsCreateArgs ==
    {Args("", t, TRUE, d, TRUE, p) : t \in ChartTypeKeys, d \in DataArgs, p \in OpsPatches}

IdArgs == {Args(id, "", FALSE, NoData, FALSE, <<>>) : id \in ChartIds}

SchemaArgs == {Args("", t, FALSE, NoData, FALSE, <<>>) : t \in ChartTypeKeys \cup {"pie"}}

ArgsOf(name) ==
    IF name = "create_chart" THEN OpsCreateArgs
    ELSE IF name = "update_chart" THEN OpsUpdateArgs
    ELSE IF name = "get_chart_schema" THEN SchemaArgs
    ELSE IdArgs

InitOps ==
    /\ token \in BOOLEAN
    /\ extra_policy \in {"ignore", "forbid"}
    /\ remote \in Stores
    /\ call = NoCall
    /\ ncalls = 0
    /\ norm = IdleNorm
    /\ correlation_id = [c \in {"main"} |-> NoCid]
    /\ requests = <<>>
    /\ logger = getLogger
    /\ alias_table = NoAliasTable
    /\ published = {}

FinishOps(r) ==
    /\ call' = r.call
    /\ remote' = r.remote
    /\ published' = r.published
    /\ ncalls' = ncalls + 1
    /\ UNCHANGED <<token, extra_policy, norm, logger, alias_table>>

OpsUpdateChart ==
    /\ ncalls < MaxOps
    /\ \E args \in OpsUpdateArgs, remote_ok \in BOOLEAN :
          FinishOps(Published(update_chart(token, remote, args, remote_ok), published))
    /\ Identify("main")

OpsCreateChart ==
    /\ ncalls < MaxOps
    /\ \E args \in OpsCreateArgs, remote_ok \in BOOLEAN :
          FinishOps(Published(create_chart("handlers", token, remote, args, remote_ok,
                                           extra_policy), published))
    /\ Identify("main")

PublishChart ==
    /\ ncalls < MaxOps
    /\ \E args \in IdArgs, remote_ok \in BOOLEAN :
          FinishOps(publish_chart("handlers", token, remote, published, args, remote_ok))
    /\ Identify("main")

DeleteChart ==
    /\ ncalls < MaxOps
    /\ \E args \in IdArgs, remote_ok \in BOOLEAN :
          FinishOps(delete_chart("handlers", token, remote, published, args, remote_ok))
    /\ Identify("main")

ExportChartPng ==
    /\ ncalls < MaxOps
    /\ \E args \in IdArgs, remote_ok \in BOOLEAN :
          FinishOps(export_chart_png("handlers", token, remote, published, args, remote_ok))
    /\ Identify("main")

GetChartInfo ==
    /\ ncalls < MaxOps
    /\ \E args \in IdArgs :
          FinishOps(get_chart_info("handlers", token, remote, published, args))
    /\ Identify("main")

GetChartSchema ==
    /\ ncalls < MaxOps
    /\ \E args \in SchemaArgs :
          FinishOps(get_chart_schema("handlers", remote, published, args))
    /\ Identify("main")

CallTool ==
    /\ ncalls < MaxOps
    /\ \E name \in ToolNames \cup {"create_chart_advanced"}, remote_ok \in BOOLEAN :
          \E args \in ArgsOf(name) :
              FinishOps(call_tool(name, token, remote, published, args, remote_ok,
                                  extra_policy))
    /\ UNCHANGED <<correlation_id, requests>>

NextOps ==
    \/ OpsUpdateChart
    \/ OpsCreateChart
    \/ PublishChart
    \/ DeleteChart
    \/ ExportChartPng
    \/ GetChartInfo
    \/ GetChartSchema
    \/ CallTool

SpecOps == InitOps /\ [][NextOps]_vars

(***************************************************************************)
(* The logger under setup_logging calls and handlers attached from         *)
(* outside, with the environment as it is at each call.                    *)
(***************************************************************************)
LevelEnv == {<<>>, <<"DEBUG">>, <<"debug">>, <<"WARNING">>, <<"NOTSET">>, <<"verbose">>, <<"">>}

FormatEnv == {<<>>, <<"json">>, <<"JSON">>, <<"xml">>}

InitLog ==
    /\ token = TRUE
    /\ extra_policy = "ignore"
    /\ remote = [id \in ChartIds |-> <<>>]
    /\ call = NoCall
    /\ ncalls = 0
    /\ norm = IdleNorm
    /\ correlation_id = [c \in {"main"} |-> NoCid]
    /\ requests = <<>>
    /\ logger = getLogger
    /\ alias_table = NoAliasTable
    /\ published = {}

SetEnv ==
    /\ \E level_env \in LevelEnv, format_env \in FormatEnv :
          logger' = [logger EXCEPT !.environ = [level |-> level_env, format |-> format_env],
                                   !.last = "putenv"]
    /\ UNCHANGED <<token, extra_policy, remote, call, ncalls, norm, correlation_id, requests,
                   alias_table, published>>

SetupLogging ==
    /\ logger.log.made < MaxLogCalls
    /\ logger' = [logger EXCEPT !.log = setup_logging(logger.log, logger.environ.level,
                                                       logger.environ.format),
                                !.last = "setup_logging"]
    /\ UNCHANGED <<token, extra_policy, remote, call, ncalls, norm, correlation_id, requests,
                   alias_table, published>>

AddHandler ==
    /\ logger.log.made < MaxLogCalls
    /\ logger' = [logger EXCEPT !.log = addHandler(logger.log), !.last = "addHandler"]
    /\ UNCHANGED <<token, extra_policy, remote, call, ncalls, norm, correlation_id, requests,
                   alias_table, published>>

NextLog == SetEnv \/ SetupLogging \/ AddHandler

SpecLog == InitLog /\ [][NextLog]_vars

(***************************************************************************)
(* The alias table of update_chart built from one schema: fields with      *)
(* distinct names, each with an alias or none; an alias may be spelled     *)
(* like the name of a field.                                               *)
(***************************************************************************)
SchemaNames == {"a", "b", "c"}

SchemaAliases == {"", "a", "b", "x"}

SchemaFields == {[name |-> n, alias |-> a] : n \in SchemaNames, a \in SchemaAliases}

Schemas ==
    {s \in SeqsUpTo(SchemaFields, MaxFields) :
        /\ s # <<>>
        /\ \A i, j \in 1..Len(s) : s[i].name = s[j].name => i = j}

InitAlias ==
    /\ token = TRUE
    /\ extra_policy = "ignore"
    /\ remote = [id \in ChartIds |-> <<>>]
    /\ call = NoCall
    /\ ncalls = 0
    /\ norm = IdleNorm
    /\ correlation_id = [c \in {"main"} |-> NoCid]
    /\ requests = <<>>
    /\ logger = getLogger
    /\ \E s \in Schemas : alias_table = [NoAliasTable EXCEPT !.fields = s]
    /\ published = {}

BuildAliasTable ==
    /\ ~alias_table.built
    /\ alias_table' = [alias_table EXCEPT !.built = TRUE,
                                          !.table = alias_to_field(alias_table.fields,
                                                                   EmptyTable)]
    /\ UNCHANGED <<token, extra_policy, remote, call, ncalls, norm, correlation_id, requests,
                   logger, published>>

NextAlias == BuildAliasTable

SpecAlias == InitAlias /\ [][NextAlias]_vars

(***************************************************************************)
(* Vocabulary of the properties.                                           *)
(***************************************************************************)
IsUpdate == call.tool = "update_chart"

Fetched == call.fetched[1]

Submitted == call.submitted[1]

Local == call.chart[1]

(* The handler got as far as applying chart_config.                        *)
ReachedConfig ==
    /\ call.args.has_config
    /\ call.outcome \in {"invalid_config", "remote_error", "success"}

(* The canonical field an external name stands for in the schema, or the   *)
(* name itself when the schema does not know it.                           *)
CanonicalOf(key) ==
    IF \E i \in 1..Len(model_fields) : model_fields[i].alias = key /\ key # ""
    THEN model_fields[CHOOSE i \in 1..Len(model_fields) : model_fields[i].alias = key].name
    ELSE key

KnownKey(key) == key \in FieldNames \cup Aliases

(* The values chart_config gives to field n, as the field would hold them. *)
PatchValues(n) ==
    {Coerce(n, call.args.config[i].value) :
        i \in {k \in 1..Len(call.args.config) : CanonicalOf(call.args.config[k].key) = n}}

(***************************************************************************)
(* C1.  Every update_chart call leaves chart_type as fetched: the local    *)
(* instance and the instance submitted to the remote update carry the      *)
(* fetched chart_type, and a chart_config whose only key names chart_type  *)
(* (by name or alias) with a different value is not answered with a        *)
(* validation failure.                                                     *)
(***************************************************************************)
NamesOtherChartType ==
    /\ call.args.has_config
    /\ Len(call.args.config) = 1
    /\ CanonicalOf(call.args.config[1].key) = "chart_type"
    /\ call.args.config[1].value # Fetched.f["chart_type"]

C1_ChartTypeSilentlyKept ==
    (IsUpdate /\ call.fetched # <<>>) =>
        /\ Local.f["chart_type"] = Fetched.f["chart_type"]
        /\ (call.submitted # <<>> => Submitted.f["chart_type"] = Fetched.f["chart_type"])
        /\ (NamesOtherChartType => call.outcome # "invalid_config")

(***************************************************************************)
(* C2.  Whatever keys chart_config holds, update_chart never passes        *)
(* chart_id, chart_type or data to setattr on the fetched instance.        *)
(***************************************************************************)
C2_ProtectedFieldsNotWritten ==
    (IsUpdate /\ call.args.has_config) =>
        \A i \in 1..Len(call.written) : call.written[i] \notin {"chart_id", "chart_type", "data"}

(***************************************************************************)
(* C3.  An update_chart call that reaches the chart_config step has called *)
(* model_validate exactly once, on a mapping that holds chart_type with    *)
(* the fetched chart's value.                                              *)
(***************************************************************************)
C3_ValidatedOnceWithChartType ==
    (IsUpdate /\ ReachedConfig) =>
        /\ Len(call.validated) = 1
        /\ "chart_type" \in DOMAIN call.validated[1]
        /\ call.validated[1]["chart_type"] = Fetched.f["chart_type"]

(***************************************************************************)
(* C4.  When the token is missing, the data argument cannot be normalised  *)
(* or chart_config fails validation, create_chart and update_chart issue   *)
(* no create or update and the remote store is as it was before the call.  *)
(***************************************************************************)
C4_NoRemoteWriteAfterFailedCheck ==
    (call.tool \in {"update_chart", "create_chart"}
        /\ call.outcome \in {"token_error", "data_error", "invalid_config"}) =>
        /\ remote = call.before
        /\ call.submitted = <<>>
        /\ \A i \in 1..Len(call.ops) : call.ops[i] \notin {"create", "update"}

C4_Witness ==
    /\ IsUpdate
    /\ call.outcome = "invalid_config"
    /\ call.variant = "handlers"
    /\ Local # Fetched
    /\ remote = call.before

(***************************************************************************)
(* C5.  When update_chart reports a validation failure, no key of          *)
(* chart_config has been applied: every field of the fetched instance      *)
(* still has its fetched value (data apart when the call carries a data    *)
(* argument).                                                              *)
(***************************************************************************)
C5_NoPartialMerge ==
    (IsUpdate /\ call.outcome = "invalid_config") =>
        \A n \in FieldNames :
            \/ n = "data" /\ call.args.has_data
            \/ Local.f[n] = Fetched.f[n]

(***************************************************************************)
(* C6.  update_chart with an empty chart_config never reports a            *)
(* validation failure, and what it submits equals the fetched chart field  *)
(* for field (data being the normalised data argument when one is given).  *)
(***************************************************************************)
C6_EmptyPatchIsNoOp ==
    (IsUpdate /\ call.args.has_config /\ call.args.config = <<>>) =>
        /\ call.outcome # "invalid_config"
        /\ (call.fetched # <<>> /\ call.outcome # "data_error" => call.submitted # <<>>)
        /\ (call.submitted # <<>> =>
               /\ Submitted.cls = Fetched.cls
               /\ \A n \in FieldNames :
                     Submitted.f[n] = IF n = "data" /\ call.args.has_data
                                      THEN DF(call.df[1]) ELSE Fetched.f[n])

C6_Witness ==
    /\ IsUpdate
    /\ call.variant = "server"
    /\ call.args.has_config
    /\ call.args.config = <<>>
    /\ ~call.args.has_data
    /\ call.outcome = "success"
    /\ Submitted = Fetched

(***************************************************************************)
(* C7.  A chart_config key that is neither a field name nor an alias makes *)
(* update_chart answer with a validation failure and issue no remote       *)
(* update, whenever the call gets as far as chart_config.                  *)
(***************************************************************************)
HasUnknownKey == \E i \in 1..Len(call.args.config) : ~KnownKey(call.args.config[i].key)

C7_UnknownKeyRejected ==
    (IsUpdate /\ ReachedConfig /\ HasUnknownKey) =>
        /\ call.outcome = "invalid_config"
        /\ call.submitted = <<>>

(***************************************************************************)
(* C8.  update_chart with chart_config {a: v}, a the alias of field f,     *)
(* submits what the same call with {f: v} submits and fails validation     *)
(* exactly when that call does; when it submits, field f holds v.          *)
(***************************************************************************)
AliasPatch ==
    /\ IsUpdate
    /\ call.args.has_config
    /\ Len(call.args.config) = 1
    /\ call.args.config[1].key \in Aliases

CanonicalArgs ==
    [call.args EXCEPT !.config =
        <<Item(CanonicalOf(call.args.config[1].key), call.args.config[1].value)>>]

CanonicalCall ==
    IF call.variant = "handlers"
    THEN update_chart(token, call.before, CanonicalArgs, TRUE).call
    ELSE server_update_chart(token, call.before, CanonicalArgs, TRUE, extra_policy).call

C8_AliasEqualsCanonical ==
    AliasPatch =>
        /\ call.submitted = CanonicalCall.submitted
        /\ (call.outcome = "invalid_config") = (CanonicalCall.outcome = "invalid_config")
        /\ (call.submitted # <<>> =>
               Submitted.f[CanonicalOf(call.args.config[1].key)]
                   = Coerce(CanonicalOf(call.args.config[1].key), call.args.config[1].value))

C8_Witness ==
    /\ AliasPatch
    /\ call.variant = "handlers"
    /\ call.args.config[1].key = "source-name"
    /\ call.outcome = "success"
    /\ Submitted.f["source_name"] = S("s1")
    /\ Fetched.f["source_name"] # S("s1")

RecordList ==
    /\ norm.input.t = "list"
    /\ norm.input.elems # <<>>
    /\ \A i \in 1..Len(norm.input.elems) : norm.input.elems[i].t = "dict"

FirstRowWith(k) ==
    CHOOSE r \in 1..Len(norm.input.elems) :
        /\ k \in Range(norm.input.elems[r].keys)
        /\ \A q \in 1..(r - 1) : k \notin Range(norm.input.elems[q].keys)

SeenBefore(k1, k2) ==
    \/ FirstRowWith(k1) < FirstRowWith(k2)
    \/ /\ FirstRowWith(k1) = FirstRowWith(k2)
       /\ IndexOf(norm.input.elems[FirstRowWith(k1)].keys, k1)
             < IndexOf(norm.input.elems[FirstRowWith(k2)].keys, k2)

C10_RecordsToTable ==
    (norm.done /\ RecordList) =>
        LET in == norm.input.elems
            df == norm.result.df
        IN  /\ norm.result.ok
            /\ Len(df.rows) = Len(in)
            /\ Range(df.columns) = UNION {Range(in[r].keys) : r \in 1..Len(in)}
            /\ \A i, j \in 1..Len(df.columns) : i < j => SeenBefore(df.columns[i], df.columns[j])
            /\ \A r \in 1..Len(in) :
                  /\ Len(df.rows[r]) = Len(df.columns)
                  /\ \A j \in 1..Len(df.columns) :
                        df.rows[r][j] =
                            IF df.columns[j] \in Range(in[r].keys)
                            THEN in[r].vals[IndexOf(in[r].keys, df.columns[j])]
                            ELSE NaN

C10_Witness ==
    /\ norm.done
    /\ RecordList
    /\ Len(norm.input.elems) = 2
    /\ norm.result.df.columns = <<"b", "a">>
    /\ norm.result.df.rows[1] = <<"1", NaN>>

(***************************************************************************)
(* C11.  For a column map (a non-empty mapping of column names to lists)   *)
(* whose lists all have length n, json_to_dataframe returns a table with   *)
(* n rows and one column per key, in the order of the keys, the column of  *)
(* a key holding the items of its list.                                    *)
(***************************************************************************)
ColumnMap ==
    /\ norm.input.t = "dict"
    /\ norm.input.elems # <<>>
    /\ \A j \in 1..Len(norm.input.elems) : norm.input.elems[j].t = "list"

EqualLengths ==
    \A i, j \in 1..Len(norm.input.elems) :
        Len(norm.input.elems[i].vals) = Len(norm.input.elems[j].vals)

C11_ColumnMapToTable ==
    (norm.done /\ ColumnMap /\ EqualLengths) =>
        LET in == norm.input.elems
            df == norm.result.df
        IN  /\ norm.result.ok
            /\ Len(df.rows) = Len(in[1].vals)
            /\ Len(df.columns) = Len(in)
            /\ \A j \in 1..Len(in) :
                  /\ df.columns[j] = in[j].keys[1]
                  /\ \A i \in 1..Len(df.rows) :
                        /\ Len(df.rows[i]) = Len(in)
                        /\ df.rows[i][j] = in[j].vals[i]

C11_Witness ==
    /\ norm.done
    /\ ColumnMap
    /\ EqualLengths
    /\ Len(norm.input.elems) = 2
    /\ norm.result.df.columns = <<"b", "a">>
    /\ norm.result.df.rows = << <<"1", "2">>, <<"2", "1">> >>

(***************************************************************************)
(* C12.  Every table json_to_dataframe returns (utils.py or server.py,     *)
(* from a record list, a column map, a JSON text or a file) has at least   *)
(* one row, at least one column, and no column name twice.                 *)
(***************************************************************************)
WellFormedTable(df) ==
    /\ Len(df.rows) >= 1
    /\ Len(df.columns) >= 1
    /\ NoDup(df.columns)

C12_TablesNotEmpty ==
    /\ (norm.done /\ norm.result.ok) => WellFormedTable(norm.result.df)
    /\ (norm.server # <<>> /\ norm.server[1].ok) => WellFormedTable(norm.server[1].df)

(***************************************************************************)
(* C13.  When a normalised table is written out as JSON text, as a record  *)
(* list or as a column map, and the text is normalised, the result is the  *)
(* same table.                                                             *)
(***************************************************************************)
C13_RoundTrip ==
    norm.again # <<>> =>
        /\ norm.again[1].ok
        /\ norm.again[1].df = norm.result.df

(***************************************************************************)
(* C14.  An empty list, an empty mapping, a list with an item that is not  *)
(* a mapping and a mapping with a value that is not a list are each        *)
(* refused by json_to_dataframe (utils.py and server.py) with a reason of  *)
(* their own, none of them the reason of the fallback for unsupported      *)
(* types, and none gives a table.                                          *)
(***************************************************************************)
ShapeFault ==
    IF norm.input.t = "list"
    THEN IF norm.input.elems = <<>> THEN "empty list"
         ELSE IF ~AllDicts(norm.input.elems) THEN "item not a mapping" ELSE ""
    ELSE IF norm.input.t = "dict"
         THEN IF norm.input.elems = <<>> THEN "empty mapping"
              ELSE IF ~AllLists(norm.input.elems) THEN "value not a list" ELSE ""
         ELSE ""

FallbackReasons == {"Unsupported data type", "Data must be one of"}

(* The reasons the four faults got, by fault, in a set of results.         *)
Diagnosed(r, fault) == ~r.ok /\ r.exc = "ValueError" /\ r.reason \notin FallbackReasons

ReasonOf(fault) ==
    IF fault = "empty list" THEN "Data list is empty"
    ELSE IF fault = "empty mapping" THEN "Data dict is empty"
         ELSE IF fault = "item not a mapping" THEN "List format must contain dictionaries"
              ELSE "Dict format must have lists as values"

C14_FourDistinctDiagnoses ==
    /\ \A f, g \in {"empty list", "empty mapping", "item not a mapping", "value not a list"} :
          ReasonOf(f) = ReasonOf(g) => f = g
    /\ (norm.done /\ ShapeFault # "") =>
          /\ Diagnosed(norm.result, ShapeFault)
          /\ norm.result.reason = ReasonOf(ShapeFault)
    /\ (norm.server # <<>> /\ ShapeFault # "") =>
          /\ Diagnosed(norm.server[1], ShapeFault)
          /\ norm.server[1].reason = ReasonOf(ShapeFault)

(***************************************************************************)
(* C15.  For a column map whose lists are not all of one length,           *)
(* json_to_dataframe returns no table: it fails with the reason for        *)
(* unequal lengths, which is none of the other reasons it gives.           *)
(***************************************************************************)
OtherReasons ==
    { "Data list is empty", "Data dict is empty", "List format must contain dictionaries",
      "Dict format must have lists as values", "Unsupported data type",
      "Unsupported file type", "CSV strings are not supported", "Invalid JSON string",
      "JSONDecodeError", "No columns to parse from file" }

C15_ColumnLengthMismatch ==
    (norm.done /\ ColumnMap /\ ~EqualLengths) =>
        /\ ~norm.result.ok
        /\ norm.result.exc = "ValueError"
        /\ norm.result.reason = "All arrays must be of the same length"
        /\ norm.result.reason \notin OtherReasons
        /\ norm.result.df = EmptyDF

C15_Witness ==
    /\ norm.done
    /\ ColumnMap
    /\ Len(norm.input.elems) = 2
    /\ Len(norm.input.elems[1].vals) = 1
    /\ Len(norm.input.elems[2].vals) = 2
    /\ ~norm.result.ok

(***************************************************************************)
(* Vocabulary of the text and file properties.                             *)
(***************************************************************************)
TextInput == norm.input.t = "str"

InputText == norm.input.text[1]

NamesFile ==
    /\ TextInput
    /\ InputText.name \in DOMAIN norm.files
    /\ norm.files[InputText.name].isfile

InputFile == norm.files[InputText.name]

(* What json.loads and the checks of the decoded value give for a text.    *)
ParseResult(s) ==
    IF s.parsed = <<>> THEN Raise("Invalid JSON string", "") ELSE FromValue(s.parsed[1])

FileReasons == {"Unsupported file type", "JSONDecodeError", "No columns to parse from file"}

(***************************************************************************)
(* C16.  A json_to_dataframe call reads at most one file, and a string     *)
(* decoded from a .json file is not taken for a path or for JSON text      *)
(* again: it is an unsupported type.                                       *)
(***************************************************************************)
C16_OneLevelDecoding ==
    norm.done =>
        /\ Len(norm.result.opened) <= 1
        /\ (NamesFile /\ InputText.ext = "json" /\ InputFile.content # <<>>
              /\ InputFile.content[1].t = "str")
             => norm.result = Opened(InputText.name, Raise("Unsupported data type", "str"))

(***************************************************************************)
(* C17.  Every json_to_dataframe call ends with a table or with a          *)
(* ValueError, whatever the input and the files, a .json file that names   *)
(* a .json file or itself included.                                        *)
(***************************************************************************)
C17_TableOrValueError ==
    norm.done => (norm.result.ok \/ norm.result.exc = "ValueError")

(***************************************************************************)
(* C18 as stated.  A text that is no existing file is refused as CSV       *)
(* content exactly when it contains a newline and a comma and does not     *)
(* start with '[' or '{'; the refusal comes before any JSON parse, and a   *)
(* text that starts with '[' or '{' always goes to the JSON parser.        *)
(***************************************************************************)
C18_RawDelimitedRejected ==
    (norm.done /\ TextInput /\ ~NamesFile) =>
        /\ (norm.result.reason = "CSV strings are not supported")
              <=> (InputText.newline /\ InputText.comma /\ ~InputText.rawlead)
        /\ InputText.rawlead => norm.result = ParseResult(InputText)

(***************************************************************************)
(* C18 as amended.  The same, where "starts with" is said of the text      *)
(* stripped of its leading and trailing whitespace.                        *)
(***************************************************************************)
C18_RawDelimitedRejectedStripped ==
    (norm.done /\ TextInput /\ ~NamesFile) =>
        /\ (norm.result.reason = "CSV strings are not supported")
              <=> (InputText.newline /\ InputText.comma /\ ~InputText.lead)
        /\ InputText.lead => norm.result = ParseResult(InputText)

C18_Witness ==
    /\ norm.done
    /\ TextInput
    /\ ~NamesFile
    /\ InputText.newline
    /\ InputText.comma
    /\ InputText.lead
    /\ ~InputText.rawlead
    /\ InputText.parsed # <<>>
    /\ norm.result.ok

(***************************************************************************)
(* C19 as stated.  A text that names an existing file is decoded by its    *)
(* extension: .csv gives the table read from the file, .json is parsed and *)
(* the decoded value shape-checked, any other extension is an unsupported  *)
(* file type.  A text that names no existing file never gives a file       *)
(* error and reads no file; it goes to the JSON parse and fails as an      *)
(* invalid JSON string when it is not JSON.                                *)
(***************************************************************************)
FileDispatch ==
    (norm.done /\ NamesFile) =>
        /\ InputText.ext = "csv" =>
              norm.result = Opened(InputText.name,
                                   IF InputFile.csv = <<>>
                                   THEN Raise("No columns to parse from file", "")
                                   ELSE Ok(InputFile.csv[1]))
        /\ (InputText.ext = "json" /\ InputFile.content = <<>>) =>
              norm.result = Opened(InputText.name, Raise("JSONDecodeError", ""))
        /\ InputText.ext \notin {"csv", "json"} =>
              norm.result = Raise("Unsupported file type", "")

IsFile(s) == s.name \in DOMAIN norm.files /\ norm.files[s.name].isfile

IsJsonFile(s) == IsFile(s) /\ s.ext = "json"

(* What one call makes of a text that is not an existing .json file.       *)
OneCall(s) ==
    IF IsFile(s)
    THEN IF s.ext = "csv"
         THEN Opened(s.name, IF norm.files[s.name].csv = <<>>
                             THEN Raise("No columns to parse from file", "")
                             ELSE Ok(norm.files[s.name].csv[1]))
         ELSE Raise("Unsupported file type", "")
    ELSE IF s.newline /\ s.comma /\ ~s.lead
         THEN Raise("CSV strings are not supported", "")
         ELSE ParseResult(s)

C20_OwnCorrelationId ==
    \A i, j \in 1..Len(requests) : requests[i].cid = requests[j].cid => i = j

(***************************************************************************)
(* C20 as amended.  The identifier belongs to the execution context: a     *)
(* request handled in a context that holds no identifier gets one that no  *)
(* earlier request has, and requests handled in one context all get the    *)
(* same identifier, which stays the context's.                             *)
(***************************************************************************)
C20_CorrelationIdPerContext ==
    \A i, j \in 1..Len(requests) :
        /\ requests[i].cid # NoCid
        /\ requests[i].cid = correlation_id[requests[i].context]
        /\ (i < j /\ requests[j].made) => requests[i].cid # requests[j].cid
        /\ requests[i].context = requests[j].context => requests[i].cid = requests[j].cid

C20_Witness ==
    /\ Len(requests) = 3
    /\ requests[1].context = requests[2].context
    /\ requests[1].cid = requests[2].cid
    /\ requests[3].context # requests[1].context
    /\ requests[3].made
    /\ requests[3].cid # requests[1].cid

(***************************************************************************)
(* C24.  In the alias table built from any schema every field name maps to *)
(* itself, also when a field's alias is spelled like the name of another   *)
(* field.                                                                  *)
(***************************************************************************)
C24_CanonicalNamesMapToThemselves ==
    alias_table.built =>
        \A i \in 1..Len(alias_table.fields) :
            /\ alias_table.fields[i].name \in DOMAIN alias_table.table
            /\ alias_table.table[alias_table.fields[i].name] = alias_table.fields[i].name

(***************************************************************************)
(* C25.  When json_to_dataframe refuses a non-empty list because an item   *)
(* is not a mapping, the type its message names is the type of an item of  *)
(* the list that is not a mapping, wherever that item stands.              *)
(***************************************************************************)
C25_NamesOffendingType ==
    (norm.done /\ norm.input.t = "list" /\ norm.input.elems # <<>>
        /\ ~AllDicts(norm.input.elems)) =>
        /\ norm.result.reason = "List format must contain dictionaries"
        /\ norm.result.got \in
              {norm.input.elems[i].t :
                  i \in {k \in 1..Len(norm.input.elems) : norm.input.elems[k].t # "dict"}}

(***************************************************************************)
(* C26.  A text that starts with '[' or '{' is never taken for a file      *)
(* path, even when a file of that name exists: no file is read and the     *)
(* result is that of the JSON parse.                                       *)
(***************************************************************************)
C26_BracketTextIsNotAPath ==
    (norm.done /\ TextInput /\ InputText.rawlead) =>
        /\ norm.result.opened = <<>>
        /\ norm.result.reason \notin FileReasons
        /\ norm.result = ParseResult(InputText)

(***************************************************************************)
(* C27.  In one execution context every get_correlation_id call returns    *)
(* the identifier the first call returned, which is not empty: it is made  *)
(* once and stays the context's identifier.                                *)
(***************************************************************************)
C27_StableWithinContext ==
    \A i, j \in 1..Len(requests) :
        (i < j /\ requests[i].context = requests[j].context) =>
            /\ requests[i].cid # NoCid
            /\ requests[j].cid = requests[i].cid
            /\ ~requests[j].made
            /\ correlation_id[requests[i].context] = requests[i].cid

C27_Witness ==
    /\ Len(requests) = 3
    /\ \A i \in 1..3 : requests[i].context = "task1"
    /\ requests[1].made
    /\ requests[3].cid = requests[1].cid
    /\ correlation_id["main"] # requests[1].cid

(***************************************************************************)
(* C28.  Right after a setup_logging call, whatever calls and handlers     *)
(* attached from outside came before, the logger has exactly one handler,  *)
(* the one this call made, so that none attached before remains, and its   *)
(* level is the one DATAWRAPPER_MCP_LOG_LEVEL names, or INFO when the      *)
(* variable is unset or names no level.                                    *)
(***************************************************************************)
NamedLevel ==
    IF logger.environ.level = <<>> THEN 20
    ELSE IF logger.environ.level[1] \in {"DEBUG", "debug"} THEN 10
    ELSE IF logger.environ.level[1] = "WARNING" THEN 30
    ELSE IF logger.environ.level[1] = "NOTSET" THEN 0
    ELSE 20

C28_OneHandlerAfterSetup ==
    logger.last = "setup_logging" =>
        /\ Len(logger.log.handlers) = 1
        /\ logger.log.handlers[1].owner = "setup_logging"
        /\ logger.log.handlers[1].id = logger.log.made
        /\ \A i \in 1..Len(logger.log.removed) :
              logger.log.removed[i].id < logger.log.handlers[1].id
        /\ logger.log.level = NamedLevel

C28_Witness ==
    /\ logger.last = "setup_logging"
    /\ logger.environ.level = <<"verbose">>
    /\ logger.log.level = 20
    /\ Len(logger.log.handlers) = 1
    /\ Len(logger.log.removed) = 2
    /\ logger.log.removed[1].owner = "setup_logging"
    /\ logger.log.removed[2].owner = "external"

(***************************************************************************)
(* Vocabulary of the properties about invocations.                         *)
(***************************************************************************)
(* The exception the handler ended with: the one call_tool caught when the *)
(* invocation came through call_tool.                                      *)
HandlerRaised == IF call.variant = "call_tool" THEN call.caught ELSE call.raised

RemoteTools ==
    {"create_chart", "update_chart", "publish_chart", "delete_chart", "export_chart_png",
     "get_chart"}

FetchingTools == RemoteTools \ {"create_chart"}

Count(ops, op) == Cardinality({i \in 1..Len(ops) : ops[i] = op})

(***************************************************************************)
(* C21.  No handler retries.  In one invocation of create_chart,           *)
(* update_chart, publish_chart, delete_chart, export_chart_png or          *)
(* get_chart_info every remote operation is issued at most once; when one  *)
(* fails it is the last the invocation issued and the handler raises the   *)
(* failure of that operation; an invocation that reports success has had   *)
(* its effect on the store.                                                *)
(***************************************************************************)
C21_NoRetry ==
    call.tool \in RemoteTools =>
        /\ \A i, j \in 1..Len(call.ops) : call.ops[i] = call.ops[j] => i = j
        /\ call.outcome \in {"fetch_error", "remote_error"} =>
              /\ call.ops # <<>>
              /\ Len(HandlerRaised) = 1
              /\ HandlerRaised[1].type = "Exception"
              /\ HandlerRaised[1].msg[1] = call.ops[Len(call.ops)]
              /\ remote = call.before
        /\ (HandlerRaised # <<>> /\ HandlerRaised[1].type = "Exception") =>
              call.outcome \in {"fetch_error", "remote_error"}
        /\ (call.outcome = "success" /\ call.tool = "publish_chart") =>
              call.args.chart_id \in published
        /\ (call.outcome = "success" /\ call.tool = "delete_chart") =>
              remote[call.args.chart_id] = <<>>
        /\ (call.outcome = "success" /\ call.tool = "update_chart") =>
              remote[call.args.chart_id] = call.submitted

C21_Witness ==
    /\ call.tool = "publish_chart"
    /\ call.variant = "handlers"
    /\ call.ops = <<"fetch", "publish">>
    /\ call.raised = <<RemoteFailure("publish", "c1")>>
    /\ "c1" \notin published

(***************************************************************************)
(* C22.  The chart is never cached.  Every update, publish, delete, export *)
(* and retrieve invocation that has the access token issues exactly one    *)
(* fetch by id, as its first remote operation; the instance fetched is the *)
(* one the store holds when the invocation starts, and the instance the    *)
(* invocation acts on is that instance, changed only as the arguments say. *)
(***************************************************************************)
C22_FetchedEachTime ==
    [][(ncalls' = ncalls + 1 /\ call'.tool \in FetchingTools) =>
          /\ call'.before = remote
          /\ token =>
                /\ call'.ops # <<>>
                /\ call'.ops[1] = "fetch"
                /\ Count(call'.ops, "fetch") = 1
                /\ call'.fetched = IF call'.args.chart_id \in ChartIds
                                   THEN remote[call'.args.chart_id] ELSE <<>>
          /\ ~token => call'.ops = <<>>
          /\ (call'.submitted # <<>> /\ call'.tool # "update_chart") =>
                call'.submitted = call'.fetched
          /\ (call'.submitted # <<>> /\ call'.tool = "update_chart") =>
                /\ call'.fetched # <<>>
                /\ call'.submitted[1].cls = call'.fetched[1].cls
                /\ call'.submitted[1].f["chart_id"] = call'.fetched[1].f["chart_id"]
                /\ call'.submitted[1].f["chart_type"] = call'.fetched[1].f["chart_type"]
                /\ ~call'.args.has_data =>
                      call'.submitted[1].f["data"] = call'.fetched[1].f["data"]
                /\ ~call'.args.has_config =>
                      /\ call'.submitted[1].f["title"] = call'.fetched[1].f["title"]
                      /\ call'.submitted[1].f["source_name"]
                            = call'.fetched[1].f["source_name"]]_vars

C22_Witness ==
    /\ ncalls = 2
    /\ call.tool = "get_chart"
    /\ call.variant = "handlers"
    /\ call.args.chart_id = "c2"
    /\ call.ops = <<"fetch">>
    /\ call.fetched # <<>>
    /\ call.fetched[1].f["title"] = S("t1")
    /\ call.fetched[1].f["source_name"] = S("s1")
    /\ call.fetched = remote["c2"]

(***************************************************************************)
(* C23.  The two families of errors stay apart at the handlers.  When the  *)
(* validation of chart_config fails in create_chart or update_chart the    *)
(* handler raises nothing and returns one text item: 'Invalid chart        *)
(* configuration', the validator's message as it is, and the pointer to    *)
(* get_chart_schema.  A data argument that cannot be normalised and a      *)
(* remote operation that fails are raised, with their own message, and     *)
(* nothing is returned.                                                    *)
(***************************************************************************)
ValidatorMessage ==
    IF call.tool = "update_chart" /\ call.variant = "handlers"
    THEN LET k == Len(call.written)
         IN  IF k = 0 THEN <<>>
             ELSE SetAttr(call.chart[1], call.written[k], call.args.config[k].value).error
    ELSE IF call.validated = <<>> THEN <<>>
         ELSE model_validate(IF call.tool = "create_chart"
                             THEN CHART_CLASSES[call.args.chart_type]
                             ELSE call.fetched[1].cls,
                             call.validated[1], extra_policy).error

NormalizedData ==
    IF call.variant = "handlers" THEN json_to_dataframe(NoFiles, call.args.data, 0)
    ELSE server_json_to_dataframe(call.args.data)

DataReached ==
    /\ call.args.has_data
    /\ call.outcome # "token_error"
    /\ call.tool = "update_chart" => call.fetched # <<>>

C23_ErrorFamiliesDisjoint ==
    (call.tool \in {"create_chart", "update_chart"} /\ call.variant # "call_tool") =>
        /\ call.outcome = "invalid_config" =>
              /\ call.raised = <<>>
              /\ ValidatorMessage # <<>>
              /\ call.response =
                    <<TextContent(<<"Invalid chart configuration">> \o ValidatorMessage
                                  \o <<IF call.tool = "create_chart"
                                       THEN "Use get_chart_schema with chart_type"
                                       ELSE "Use get_chart_schema">>)>>
              /\ call.args.has_data => NormalizedData.ok
              /\ remote = call.before
        /\ (DataReached /\ ~NormalizedData.ok) =>
              /\ call.outcome = "data_error"
              /\ call.raised = <<Exc(NormalizedData.exc,
                                     <<NormalizedData.reason, NormalizedData.got>>)>>
              /\ call.response = <<>>
        /\ call.outcome \in {"data_error", "fetch_error", "remote_error"} =>
              /\ call.raised # <<>>
              /\ call.raised[1].msg[1] # "Invalid chart configuration"
              /\ call.response = <<>>
        /\ call.outcome = "remote_error" =>
              /\ call.raised[1].type = "Exception"
              /\ call.raised[1].msg[1] = call.ops[Len(call.ops)]

C23_Witness ==
    /\ call.tool = "update_chart"
    /\ call.variant = "handlers"
    /\ call.args.has_data
    /\ call.outcome = "invalid_config"
    /\ call.response =
          <<TextContent(<<"Invalid chart configuration", "validation error for", "BarChart",
                          "title", "int", "Use get_chart_schema">>)>>

(***************************************************************************)
(* C29.  call_tool raises nothing.  Whatever the tool name, one of the     *)
(* seven or any other, and whatever exception the function behind it       *)
(* raised, call_tool returns one text item, 'Error: ' followed by the      *)
(* message of the exception.                                               *)
(***************************************************************************)
C29_CallToolNeverRaises ==
    call.variant = "call_tool" =>
        /\ call.raised = <<>>
        /\ Len(call.response) = 1
        /\ call.outcome \in {"token_error", "fetch_error", "data_error", "remote_error",
                             "key_error", "unknown_tool"} =>
              /\ call.caught # <<>>
              /\ call.response = <<TextContent(<<"Error">> \o call.caught[1].msg)>>
        /\ call.tool \notin ToolNames =>
              /\ call.outcome = "unknown_tool"
              /\ call.response = <<TextContent(<<"Error", "Unknown tool", call.tool>>)>>
              /\ remote = call.before
        /\ (~token /\ call.tool \in ToolNames \ {"get_chart_schema"}) =>
              call.response = <<TextContent(<<"Error">> \o TokenError.msg)>>

C29_Witness ==
    /\ call.variant = "call_tool"
    /\ call.tool = "delete_chart"
    /\ call.ops = <<"fetch", "delete">>
    /\ call.caught = <<RemoteFailure("delete", "c1")>>
    /\ call.response = <<TextContent(<<"Error", "delete", "c1">>)>>
    /\ call.raised = <<>>

(***************************************************************************)
(* C30.  An update_chart call with neither data nor chart_config that has  *)
(* the token and finds the chart issues one remote update, of the chart as *)
(* fetched, and reports success unless that update fails.  With both       *)
(* given, the data is normalised and assigned before any key of            *)
(* chart_config is applied, and the one remote update is issued only when  *)
(* both steps succeeded.                                                   *)
(***************************************************************************)
C30_UpdateOrder ==
    (call.tool = "update_chart" /\ call.fetched # <<>>) =>
        /\ (~call.args.has_data /\ ~call.args.has_config) =>
              /\ call.ops = <<"fetch", "update">>
              /\ call.submitted = call.fetched
              /\ call.written = <<>>
              /\ call.outcome \in {"success", "remote_error"}
              /\ call.outcome = "success" =>
                    /\ call.response =
                          <<TextContent(<<"Chart updated successfully!",
                                          call.args.chart_id>>)>>
                    /\ remote = call.before
        /\ (call.args.has_data /\ call.args.has_config) =>
              /\ ~NormalizedData.ok =>
                    /\ call.outcome = "data_error"
                    /\ call.written = <<>>
                    /\ call.validated = <<>>
                    /\ call.ops = <<"fetch">>
              /\ NormalizedData.ok =>
                    /\ call.df = <<NormalizedData.df>>
                    /\ call.outcome \in {"invalid_config", "success", "remote_error"}
                    /\ "data" \notin Range(call.written) =>
                          call.chart[1].f["data"] = DF(NormalizedData.df)
              /\ call.outcome = "invalid_config" => call.ops = <<"fetch">>
              /\ Count(call.ops, "update") = 1 =>
                    /\ call.ops = <<"fetch", "update">>
                    /\ NormalizedData.ok
                    /\ call.outcome \in {"success", "remote_error"}
              /\ Count(call.ops, "update") <= 1

C30_Witness ==
    /\ call.tool = "update_chart"
    /\ call.variant = "handlers"
    /\ ~call.args.has_data
    /\ ~call.args.has_config
    /\ call.ops = <<"fetch", "update">>
    /\ call.submitted = call.fetched
    /\ call.outcome = "success"

====
